---- MODULE Spec2Model ----
(***************************************************************************)
(* Document edit and annotation engine: the paragraph/run store of         *)
(* TextHandler with its search and replace, the tracked-changes overlay of *)
(* RevisionHandler and the comment overlay of CommentHandler.              *)
(*                                                                         *)
(* A text is a sequence of one-character strings, a run is a record with   *)
(* its text, a paragraph is the sequence of its runs and hyperlinks and the *)
(* document is the sequence of its body paragraphs.  Indices and ids are   *)
(* 0-based as in                                                           *)
(* the source; paragraph i of the source is paragraphs[i + 1] here.        *)
(* Python's None is the empty tuple and a present value x is <<x>>.        *)
(***************************************************************************)
EXTENDS Integers, Sequences, FiniteSets, TLC

VARIABLES
    paragraphs,   \* Document.paragraphs: the body paragraphs, each the
                  \* sequence of its w:r and w:hyperlink children
    revisions,    \* RevisionHandler._revisions
    next_id,      \* RevisionHandler._next_id
    comments,     \* CommentHandler._comments
    comment_next_id,  \* CommentHandler._next_id
    now,          \* the value the next datetime.now() returns
    issued,       \* history: every revision id add_revision has returned so far
    call,         \* history: the last call, its arguments and its outcome
    before,       \* history of the store specification: Document.paragraphs
                  \* as it was before the last call
    prior,        \* history of the store specification: the call before the
                  \* last one and the document before it
    returned,     \* history: the value the last call returned when it was
                  \* a query (find_text, a comment query)
    substituted,  \* history: the number of substitutions the last call made
                  \* in each run of the document when it was replace_text
    bookmarks,    \* the w:bookmarkStart / w:bookmarkEnd children of each body
                  \* paragraph, in document order (parallel to paragraphs)
    styles,       \* Document.styles: the styles of the document, by name
    tables,       \* Document.tables: the tables of the document
    stored,       \* the .docx file of the document in the upload directory
    cached,       \* routes/revisions.py: document_id in _revision_handlers
    tracking_enabled  \* RevisionHandler._tracking_enabled

vars == <<paragraphs, revisions, next_id, comments, comment_next_id, now,
          issued, call, before, prior, returned, substituted,
          bookmarks, styles, tables, stored, cached, tracking_enabled>>

-----------------------------------------------------------------------------
(* Bounds of the model *)

MaxParas == 3     \* most paragraphs a document grows to
MaxRevs == 1      \* most revisions the list holds at once (SpecReject: one more)
MaxClock == 3     \* most readings of datetime.now()
MaxComments == 2  \* most comments the list holds at once
MaxTextLen == 16  \* most characters replace_text lets a run grow to

-----------------------------------------------------------------------------
(* Values *)

None == <<>>
Some(x) == <<x>>

\* Python truthiness of a value of type str | None
Truthy(c) == c # None /\ Len(c[1]) > 0

\* the (action, new_content) pairs add_revision is called with: new_content
\* is read for insert and replace only
RevisionInputs ==
    LET RevisionAction == {"insert", "delete", "format", "move", "replace"}
        NewContents == {None, Some(<<>>), Some(<<"x">>)}
    IN
    ({"insert", "replace"} \X NewContents)
        \cup ((RevisionAction \ {"insert", "replace"}) \X {Some(<<"x">>)})

\* a run: its text and its font size in points (None when the run carries
\* no size of its own)
Run(t) == [text |-> t, font_size |-> None]

\* Paragraph.runs: the w:r children of the paragraph. A w:hyperlink child
\* (TocHandler.add_hyperlink, add_internal_link) is not a run: it holds its
\* text, the target of its relationship and its anchor
runs(para) == SelectSeq(para, LAMBDA child : "font_size" \in DOMAIN child)

RECURSIVE ParaText(_)
\* Paragraph.text: the concatenation of the texts of the w:r and w:hyperlink
\* children of the paragraph, in their order (python-docx from 1.0 on)
ParaText(para) ==
    IF para = <<>> THEN <<>> ELSE para[1].text \o ParaText(Tail(para))

\* Paragraph.add_run(text): one run is appended
add_run(para, t) == Append(para, Run(t))

\* Paragraph.clear(): all runs and hyperlinks are removed
clear(para) == <<>>

\* Paragraph.clear() on the bookmark elements: clear_content removes every
\* child of the paragraph but its properties
clear_bookmarks(marks, cleared) ==
    [k \in 1..Len(marks) |-> IF k \in cleared THEN <<>> ELSE marks[k]]

\* the texts of the paragraphs of a document, by index
Texts(paras) == [k \in 1..Len(paras) |-> ParaText(paras[k])]

\* list[i] of Python on a list of length n: the 1-based position, 0 for IndexError
PyIndex(n, i) ==
    IF i >= 0 /\ i < n THEN i + 1
    ELSE IF i < 0 /\ i >= -n THEN n + i + 1
    ELSE 0

-----------------------------------------------------------------------------
(* TextHandler *)

\* _validate_paragraph_index: TRUE when the index is accepted
validate_paragraph_index(paras, index) == ~(index < 0 \/ index >= Len(paras))

\* Document.add_paragraph(text): appended; the run is added only for a
\* non-empty text
add_paragraph_fn(paras, t) ==
    Append(paras, IF Len(t) > 0 THEN add_run(<<>>, t) ELSE <<>>)

\* mutant of addprevious: the new paragraph element is placed after the
\* paragraph at index (addnext)
addprevious_after(paras, index) ==
    SubSeq(paras, 1, index + 1) \o <<(<<>>)>> \o SubSeq(paras, index + 2, Len(paras))

\* addprevious: a new empty paragraph element is placed before the paragraph
\* at index (0-based, index < Len(paras))
addprevious(paras, index) ==
    SubSeq(paras, 1, index) \o <<(<<>>)>> \o SubSeq(paras, index + 1, Len(paras))

\* mutant of remove_paragraph: the last paragraph is removed whatever the index
remove_paragraph_last(paras, index) ==
    SubSeq(paras, 1, Len(paras) - 1)

\* p.getparent().remove(p) for the paragraph at index
remove_paragraph(paras, index) ==
    SubSeq(paras, 1, index) \o SubSeq(paras, index + 2, Len(paras))

\* a call: the operation, the paragraph index or revision id it addressed, the
\* text it passed, the exception it raised and its message, the value returned
Call(op, idx, text, raised, msg, ret) ==
    [op |-> op, idx |-> idx, text |-> text,
     raised |-> raised, msg |-> msg, ret |-> ret]

RevUnchanged == UNCHANGED <<revisions, next_id, now, issued>>

\* TextHandler and RevisionHandler hold no reference to the CommentHandler
CommentsUnchanged == UNCHANGED <<comments, comment_next_id>>

\* the handlers of paragraphs, revisions and comments touch neither the
\* styles, the tables, the stored file nor the handler cache of the routes
PartsUnchanged == UNCHANGED <<styles, tables, stored, cached, tracking_enabled>>

\* the tables after the body gained (by = 1) or lost (by = -1) a paragraph
\* at index: the tables behind that paragraph have one paragraph more or
\* less in front of them
shift_tables(tbls, index, by) ==
    [t \in 1..Len(tbls) |->
        IF tbls[t].at > index THEN [tbls[t] EXCEPT !.at = @ + by] ELSE tbls[t]]

add_paragraph(t) ==
    /\ Len(paragraphs) < MaxParas
    /\ paragraphs' = add_paragraph_fn(paragraphs, t)
    /\ bookmarks' = Append(bookmarks, <<>>)
    /\ call' = Call("add_paragraph", -1, Some(t), "none", "",
                    Len(paragraphs') - 1)
    /\ RevUnchanged
    /\ CommentsUnchanged
    /\ PartsUnchanged

insert_paragraph(index, t) ==
    /\ RevUnchanged
    /\ CommentsUnchanged
    /\ UNCHANGED <<styles, stored, cached, tracking_enabled>>
    /\ IF index < 0 \/ index > Len(paragraphs)
       THEN /\ paragraphs' = paragraphs
            /\ bookmarks' = bookmarks
            /\ tables' = tables
            /\ call' = Call("insert_paragraph", index, Some(t),
                            "ValidationError", "out of range", -1)
       ELSE /\ Len(paragraphs) < MaxParas
            /\ paragraphs' =
                   IF index = Len(paragraphs)
                   THEN add_paragraph_fn(paragraphs, t)
                   ELSE [addprevious(paragraphs, index) EXCEPT
                            ![index + 1] = add_run(@, t)]
            /\ tables' = shift_tables(tables, index, 1)
            /\ bookmarks' = IF index = Len(paragraphs)
                            THEN Append(bookmarks, <<>>)
                            ELSE addprevious(bookmarks, index)
            /\ call' = Call("insert_paragraph", index, Some(t), "none", "",
                            IF index = Len(paragraphs)
                            THEN Len(paragraphs') - 1 ELSE index)

\* mutant of delete_paragraph: the comments anchored after the paragraph
\* removed follow it to their new index
delete_paragraph_reanchors(index) ==
    /\ RevUnchanged
    /\ UNCHANGED <<styles, stored, cached, tracking_enabled>>
    /\ comment_next_id' = comment_next_id
    /\ IF ~validate_paragraph_index(paragraphs, index)
       THEN /\ paragraphs' = paragraphs
            /\ bookmarks' = bookmarks
            /\ tables' = tables
            /\ comments' = comments
            /\ call' = Call("delete_paragraph", index, None,
                            "ValidationError", "out of range", -1)
       ELSE /\ paragraphs' = remove_paragraph(paragraphs, index)
            /\ bookmarks' = remove_paragraph(bookmarks, index)
            /\ tables' = shift_tables(tables, index, -1)
            /\ comments' = [k \in 1..Len(comments) |->
                               IF comments[k].paragraph_index > index
                               THEN [comments[k] EXCEPT !.paragraph_index = @ - 1]
                               ELSE comments[k]]
            /\ call' = Call("delete_paragraph", index, None, "none", "", -1)

delete_paragraph(index) ==
    /\ RevUnchanged
    /\ CommentsUnchanged
    /\ UNCHANGED <<styles, stored, cached, tracking_enabled>>
    /\ IF ~validate_paragraph_index(paragraphs, index)
       THEN /\ paragraphs' = paragraphs
            /\ bookmarks' = bookmarks
            /\ tables' = tables
            /\ call' = Call("delete_paragraph", index, None,
                            "ValidationError", "out of range", -1)
       ELSE /\ paragraphs' = remove_paragraph(paragraphs, index)
            /\ bookmarks' = remove_paragraph(bookmarks, index)
            /\ tables' = shift_tables(tables, index, -1)
            /\ call' = Call("delete_paragraph", index, None, "none", "", -1)

\* TextFormat(font_size=size) of schemas.py: Field(ge=6, le=144) makes the
\* constructor raise for a size outside the range; size is None or Some(n)
TextFormat(size) ==
    IF size # None /\ (size[1] < 6 \/ size[1] > 144)
    THEN [raised |-> "pydantic.ValidationError", font_size |-> None]
    ELSE [raised |-> "none", font_size |-> size]

\* _apply_format on the font size: run.font.size = Pt(font_size) when the
\* format carries one
apply_format(run, format_) ==
    IF format_.font_size # None
    THEN [run EXCEPT !.font_size = format_.font_size]
    ELSE run

\* the RunDTO of a run
RunDTO(run) == [text |-> run.text, font_size |-> run.font_size]

\* the ParagraphDTO get_paragraph builds for a valid index
ParagraphDTO(paras, index) ==
    [index |-> index, text |-> ParaText(paras[index + 1]),
     runs |-> [j \in 1..Len(runs(paras[index + 1])) |->
                  RunDTO(runs(paras[index + 1])[j])]]

\* a call that raised before it changed anything
Refused(op, idx, text, raised, msg) ==
    /\ UNCHANGED <<paragraphs, bookmarks>>
    /\ call' = Call(op, idx, text, raised, msg, -1)

get_paragraph(index) ==
    /\ RevUnchanged
    /\ CommentsUnchanged
    /\ PartsUnchanged
    /\ IF ~validate_paragraph_index(paragraphs, index)
       THEN Refused("get_paragraph", index, None, "ValidationError", "out of range")
       ELSE /\ UNCHANGED <<paragraphs, bookmarks>>
            /\ call' = Call("get_paragraph", index, None, "none", "",
                            ParagraphDTO(paragraphs, index))

\* update_paragraph(index, text): text is None or Some(t)
update_paragraph(index, text) ==
    /\ RevUnchanged
    /\ CommentsUnchanged
    /\ PartsUnchanged
    /\ IF ~validate_paragraph_index(paragraphs, index)
       THEN Refused("update_paragraph", index, text, "ValidationError", "out of range")
       ELSE /\ paragraphs' = IF text # None
                             THEN [paragraphs EXCEPT
                                      ![index + 1] = add_run(clear(@), text[1])]
                             ELSE paragraphs
            /\ bookmarks' = IF text # None
                            THEN clear_bookmarks(bookmarks, {index + 1})
                            ELSE bookmarks
            /\ call' = Call("update_paragraph", index, text, "none", "",
                            ParagraphDTO(paragraphs', index))

\* the arguments of a run call: the run index or offset, the text and the
\* font size of the format
RunArgs(at, t, size) == [at |-> at, text |-> t, font_size |-> size]

\* TextHandler.add_run(paragraph_index, text, format_) with the format
\* TextFormat(font_size=size)
text_add_run(paragraph_index, t, size) ==
    LET format_ == TextFormat(size)
        args == Some(RunArgs(-1, t, size)) IN
    /\ RevUnchanged
    /\ CommentsUnchanged
    /\ PartsUnchanged
    /\ IF format_.raised # "none"
       THEN Refused("TextFormat", paragraph_index, args, format_.raised, "font_size")
       ELSE IF ~validate_paragraph_index(paragraphs, paragraph_index)
       THEN Refused("add_run", paragraph_index, args, "ValidationError", "out of range")
       ELSE LET run == apply_format(Run(t), format_) IN
            /\ paragraphs' = [paragraphs EXCEPT
                                 ![paragraph_index + 1] = Append(@, run)]
            /\ bookmarks' = bookmarks
            /\ call' = Call("add_run", paragraph_index, args, "none", "",
                            RunDTO(run))

format_run(paragraph_index, run_index, size) ==
    LET format_ == TextFormat(size)
        args == Some(RunArgs(run_index, None, size)) IN
    /\ RevUnchanged
    /\ CommentsUnchanged
    /\ PartsUnchanged
    /\ IF format_.raised # "none"
       THEN Refused("TextFormat", paragraph_index, args, format_.raised, "font_size")
       ELSE IF ~validate_paragraph_index(paragraphs, paragraph_index)
       THEN Refused("format_run", paragraph_index, args, "ValidationError", "out of range")
       ELSE IF run_index < 0 \/ run_index >= Len(runs(paragraphs[paragraph_index + 1]))
       THEN Refused("format_run", paragraph_index, args, "ValidationError",
                    "Run index out of range")
       ELSE LET para == paragraphs[paragraph_index + 1]
                \* the child of the paragraph that is para.runs[run_index]
                at == CHOOSE c \in 1..Len(para) :
                          /\ "font_size" \in DOMAIN para[c]
                          /\ Len(runs(SubSeq(para, 1, c))) = run_index + 1
                run == apply_format(para[at], format_) IN
            /\ paragraphs' = [paragraphs EXCEPT ![paragraph_index + 1][at] = run]
            /\ bookmarks' = bookmarks
            /\ call' = Call("format_run", paragraph_index, args, "none", "",
                            RunDTO(run))

\* mutant of insert_text: an offset past the text is clamped to its end
insert_text_clamps(paragraph_index, offset, t, size) ==
    LET format_ == TextFormat(size)
        args == Some(RunArgs(offset, t, size)) IN
    /\ RevUnchanged
    /\ CommentsUnchanged
    /\ PartsUnchanged
    /\ IF format_.raised # "none"
       THEN Refused("TextFormat", paragraph_index, args, format_.raised, "font_size")
       ELSE IF ~validate_paragraph_index(paragraphs, paragraph_index)
       THEN Refused("insert_text", paragraph_index, args, "ValidationError", "out of range")
       ELSE LET para_text == ParaText(paragraphs[paragraph_index + 1])
                at == IF offset > Len(para_text) THEN Len(para_text) ELSE offset IN
            IF offset < 0
            THEN Refused("insert_text", paragraph_index, args, "ValidationError",
                         "Offset out of range")
            ELSE LET new_text == SubSeq(para_text, 1, at) \o t
                                   \o SubSeq(para_text, at + 1, Len(para_text))
                     run == apply_format(Run(new_text), format_) IN
                 /\ Len(new_text) <= MaxTextLen
                 /\ paragraphs' = [paragraphs EXCEPT ![paragraph_index + 1] = <<run>>]
                 /\ bookmarks' = clear_bookmarks(bookmarks, {paragraph_index + 1})
                 /\ call' = Call("insert_text", paragraph_index, args, "none", "", -1)

insert_text(paragraph_index, offset, t, size) ==
    LET format_ == TextFormat(size)
        args == Some(RunArgs(offset, t, size)) IN
    /\ RevUnchanged
    /\ CommentsUnchanged
    /\ PartsUnchanged
    /\ IF format_.raised # "none"
       THEN Refused("TextFormat", paragraph_index, args, format_.raised, "font_size")
       ELSE IF ~validate_paragraph_index(paragraphs, paragraph_index)
       THEN Refused("insert_text", paragraph_index, args, "ValidationError", "out of range")
       ELSE LET para_text == ParaText(paragraphs[paragraph_index + 1]) IN
            IF offset < 0 \/ offset > Len(para_text)
            THEN Refused("insert_text", paragraph_index, args, "ValidationError",
                         "Offset out of range")
            ELSE LET new_text == SubSeq(para_text, 1, offset) \o t
                                   \o SubSeq(para_text, offset + 1, Len(para_text))
                     run == apply_format(Run(new_text), format_) IN
                 /\ Len(new_text) <= MaxTextLen
                 /\ paragraphs' = [paragraphs EXCEPT ![paragraph_index + 1] = <<run>>]
                 /\ bookmarks' = clear_bookmarks(bookmarks, {paragraph_index + 1})
                 /\ call' = Call("insert_text", paragraph_index, args, "none", "", -1)

-----------------------------------------------------------------------------
(* TextHandler: find_text and replace_text.  Python positions are 0-based:  *)
(* the character at position p of a text is text[p + 1].                    *)

\* str.lower() on the letters of the model's alphabet
LowerOf == ("A" :> "a") @@ ("B" :> "b") @@ ("C" :> "c") @@ ("X" :> "x")

LowerChar(c) == IF c \in DOMAIN LowerOf THEN LowerOf[c] ELSE c

lower(text) == [j \in 1..Len(text) |-> LowerChar(text[j])]

Letters ==
    {"a", "b", "c", "d", "e", "f", "g", "o", "r", "t", "x", "y"}
        \cup DOMAIN LowerOf

\* str.isalnum() on one character
isalnum(c) == c \in Letters

\* \w of the re module: alphanumeric or underscore
WordChar(c) == isalnum(c) \/ c = "_"

\* text[pos : pos + n] of Python, pos >= 0
Slice(text, pos, n) ==
    SubSeq(text, pos + 1, IF pos + n > Len(text) THEN Len(text) ELSE pos + n)

\* sub occurs in text at position pos
MatchAt(text, sub, pos) ==
    /\ pos + Len(sub) <= Len(text)
    /\ \A j \in 1..Len(sub) : text[pos + j] = sub[j]

\* str.find(sub, start): the lowest position >= start at which sub occurs,
\* -1 when there is none
str_find(text, sub, start) ==
    LET at == {p \in start..(Len(text) - Len(sub)) : MatchAt(text, sub, p)}
    IN  IF at = {} THEN -1
        ELSE CHOOSE p \in at : \A q \in at : p <= q

\* sub in text
contains(text, sub) == str_find(text, sub, 0) # -1

\* mutant of whole_word_ok: only the character before the match is tested
whole_word_ok_before_only(text, search, pos) ==
    pos = 0 \/ ~isalnum(text[pos])

\* the whole_word test of find_text on the match of search at pos
whole_word_ok(text, search, pos) ==
    LET word_before == pos = 0 \/ ~isalnum(text[pos])
        word_after == \/ pos + Len(search) >= Len(text)
                      \/ ~isalnum(text[pos + Len(search) + 1])
    IN  word_before /\ word_after

RECURSIVE scan_non_overlapping(_, _, _, _)
\* mutant of scan: the scan resumes after the match, at pos + len(search)
scan_non_overlapping(text, search, whole_word, start) ==
    LET pos == str_find(text, search, start) IN
    IF pos = -1 THEN <<>>
    ELSE IF whole_word /\ ~whole_word_ok(text, search, pos)
    THEN scan_non_overlapping(text, search, whole_word, pos + 1)
    ELSE <<pos>> \o scan_non_overlapping(text, search, whole_word,
                                         pos + (IF Len(search) = 0 THEN 1
                                                ELSE Len(search)))

RECURSIVE scan(_, _, _, _)
\* the while loop of find_text on one paragraph: the positions appended
scan(text, search, whole_word, start) ==
    LET pos == str_find(text, search, start) IN
    IF pos = -1 THEN <<>>
    ELSE IF whole_word /\ ~whole_word_ok(text, search, pos)
    THEN scan(text, search, whole_word, pos + 1)
    ELSE <<pos>> \o scan(text, search, whole_word, pos + 1)

\* the matches find_text appends for the paragraph at index i
paragraph_matches(para, i, search_text, case_sensitive, whole_word) ==
    LET search == IF case_sensitive THEN search_text ELSE lower(search_text)
        text == IF case_sensitive THEN ParaText(para) ELSE lower(ParaText(para))
        found == scan(text, search, whole_word, 0)
    IN  [j \in 1..Len(found) |->
            [paragraph_index |-> i, offset |-> found[j],
             length |-> Len(search_text),
             text |-> Slice(ParaText(para), found[j], Len(search_text))]]

RECURSIVE find_text_from(_, _, _, _, _)
\* the for loop of find_text over the paragraphs from index i on
find_text_from(paras, i, search_text, case_sensitive, whole_word) ==
    IF i >= Len(paras) THEN <<>>
    ELSE paragraph_matches(paras[i + 1], i, search_text, case_sensitive, whole_word)
         \o find_text_from(paras, i + 1, search_text, case_sensitive, whole_word)

\* the arguments of a search call
FindArgs(search_text, case_sensitive, whole_word) ==
    [find |-> search_text, case_sensitive |-> case_sensitive,
     whole_word |-> whole_word]

find_text(search_text, case_sensitive, whole_word) ==
    /\ UNCHANGED <<paragraphs, revisions, next_id, comments, comment_next_id,
                   now, issued, bookmarks>>
    /\ PartsUnchanged
    /\ returned' = find_text_from(paragraphs, 0, search_text,
                                  case_sensitive, whole_word)
    /\ call' = Call("find_text", -1,
                    Some(FindArgs(search_text, case_sensitive, whole_word)),
                    "none", "", -1)

RECURSIVE str_replace(_, _, _)
\* str.replace(old, new) with the number of occurrences replaced: the
\* occurrences are taken from the left and do not overlap; an empty old
\* matches before every character and at the end
str_replace(text, old, new) ==
    IF Len(old) = 0
    THEN IF text = <<>> THEN [text |-> new, n |-> 1]
         ELSE LET rest == str_replace(Tail(text), old, new)
              IN  [text |-> new \o <<text[1]>> \o rest.text, n |-> rest.n + 1]
    ELSE IF Len(text) < Len(old) THEN [text |-> text, n |-> 0]
    ELSE IF MatchAt(text, old, 0)
    THEN LET rest == str_replace(SubSeq(text, Len(old) + 1, Len(text)), old, new)
         IN  [text |-> new \o rest.text, n |-> rest.n + 1]
    ELSE LET rest == str_replace(Tail(text), old, new)
         IN  [text |-> <<text[1]>> \o rest.text, n |-> rest.n]

\* \b of the re module at position pos of text: exactly one of the characters
\* before and after the position is a word character
WordBoundary(text, pos) ==
    LET word_before == pos > 0 /\ WordChar(text[pos])
        word_after == pos < Len(text) /\ WordChar(text[pos + 1])
    IN  word_before # word_after

\* the pattern re.escape(find), between \b and \b for whole_word, matches at
\* position pos of text under re.IGNORECASE
PatternMatchesAt(text, find, whole_word, pos) ==
    /\ MatchAt(lower(text), lower(find), pos)
    /\ whole_word => /\ WordBoundary(text, pos)
                     /\ WordBoundary(text, pos + Len(find))

RECURSIVE subn_from(_, _, _, _, _)
\* re.subn from position pos on, for a non-empty find and a replacement
\* without backslash: the matches are taken from the left and do not overlap
subn_from(text, find, replace, whole_word, pos) ==
    IF pos >= Len(text) THEN [text |-> <<>>, n |-> 0]
    ELSE IF PatternMatchesAt(text, find, whole_word, pos)
    THEN LET rest == subn_from(text, find, replace, whole_word, pos + Len(find))
         IN  [text |-> replace \o rest.text, n |-> rest.n + 1]
    ELSE LET rest == subn_from(text, find, replace, whole_word, pos + 1)
         IN  [text |-> <<text[pos + 1]>> \o rest.text, n |-> rest.n]

\* mutant of run_replace: the case-insensitive branch substitutes in
\* lower_text, not in run.text
run_replace_lowered(text, find, replace, case_sensitive, whole_word) ==
    IF case_sensitive
    THEN IF contains(text, find)
         THEN LET out == str_replace(text, find, replace)
              IN  [text |-> out.text, count |-> 1, n |-> out.n]
         ELSE [text |-> text, count |-> 0, n |-> 0]
    ELSE IF contains(lower(text), lower(find))
         THEN LET out == subn_from(lower(text), find, replace, whole_word, 0)
              IN  [text |-> out.text, count |-> out.n, n |-> out.n]
         ELSE [text |-> text, count |-> 0, n |-> 0]

\* the body of the loop of replace_text for one run: the text the run is
\* left with, what the run adds to count, and the number n of occurrences
\* that were substituted in it
run_replace(text, find, replace, case_sensitive, whole_word) ==
    IF case_sensitive
    THEN IF contains(text, find)
         THEN LET out == str_replace(text, find, replace)
              IN  [text |-> out.text, count |-> 1, n |-> out.n]
         ELSE [text |-> text, count |-> 0, n |-> 0]
    ELSE IF contains(lower(text), lower(find))
         THEN LET out == subn_from(text, find, replace, whole_word, 0)
              IN  [text |-> out.text, count |-> out.n, n |-> out.n]
         ELSE [text |-> text, count |-> 0, n |-> 0]

\* mutant of replace_runs: the paragraph is replaced as one text, which its
\* first run takes while the others are emptied
replace_runs_joined(para, find, replace, case_sensitive, whole_word) ==
    LET out == run_replace(ParaText(para), find, replace, case_sensitive, whole_word)
    IN  [j \in 1..Len(para) |->
            IF j = 1 THEN out ELSE [text |-> <<>>, count |-> 0, n |-> 0]]

\* the loop of replace_text over para.runs, by the children of the
\* paragraph: a w:hyperlink child is not among the runs and keeps its text
replace_runs(para, find, replace, case_sensitive, whole_word) ==
    [j \in 1..Len(para) |->
        IF "font_size" \in DOMAIN para[j]
        THEN run_replace(para[j].text, find, replace, case_sensitive, whole_word)
        ELSE [text |-> para[j].text, count |-> 0, n |-> 0]]

RECURSIVE SumOf(_)
SumOf(seq) == IF seq = <<>> THEN 0 ELSE seq[1] + SumOf(Tail(seq))

\* the arguments of a replace call
ReplaceArgs(find, replace, case_sensitive, whole_word) ==
    [find |-> find, replace |-> replace, case_sensitive |-> case_sensitive,
     whole_word |-> whole_word]

replace_text(find, replace, case_sensitive, whole_word) ==
    LET out == [k \in 1..Len(paragraphs) |->
                   replace_runs(paragraphs[k], find, replace,
                                case_sensitive, whole_word)]
        count == SumOf([k \in 1..Len(out) |->
                           SumOf([j \in 1..Len(out[k]) |-> out[k][j].count])])
    IN  /\ \A k \in 1..Len(out) : \A j \in 1..Len(out[k]) :
              Len(out[k][j].text) <= MaxTextLen
        /\ paragraphs' = [k \in 1..Len(out) |->
                             [j \in 1..Len(out[k]) |->
                                 [paragraphs[k][j] EXCEPT !.text = out[k][j].text]]]
        /\ substituted' = [k \in 1..Len(out) |->
                              [j \in 1..Len(out[k]) |-> out[k][j].n]]
        /\ call' = Call("replace_text", -1,
                        Some(ReplaceArgs(find, replace, case_sensitive, whole_word)),
                        "none", "", count)
        /\ RevUnchanged
        /\ CommentsUnchanged
        /\ PartsUnchanged
        /\ bookmarks' = bookmarks

-----------------------------------------------------------------------------
(* RevisionHandler *)

Revision(id, action, author, index, orig, new, created) ==
    [id |-> id, action |-> action, author |-> author,
     paragraph_index |-> index,
     original_content |-> orig, new_content |-> new,
     is_accepted |-> FALSE, is_rejected |-> FALSE,
     created_at |-> created, accepted_at |-> None, accepted_by |-> None]

add_revision(action, author, index, orig, new) ==
    /\ paragraphs' = paragraphs
    /\ CommentsUnchanged
    /\ PartsUnchanged
    /\ bookmarks' = bookmarks
    /\ IF index < 0 \/ index >= Len(paragraphs)
       THEN /\ UNCHANGED <<revisions, next_id, now, issued>>
            /\ call' = Call("add_revision", index, None,
                            "ValidationError", "out of range", -1)
       ELSE /\ now < MaxClock
            /\ next_id' = next_id + 1
            /\ revisions' = Append(revisions,
                   Revision(next_id, action, author, index, orig, new, now))
            /\ now' = now + 1
            /\ issued' = issued \cup {next_id}
            /\ call' = Call("add_revision", index, None, "none", "", next_id)

\* get_revision: the position of the first revision with the id, 0 when
\* there is none (ValidationError)
get_revision(revs, id) ==
    IF \E k \in 1..Len(revs) : revs[k].id = id
    THEN CHOOSE k \in 1..Len(revs) :
             /\ revs[k].id = id
             /\ \A j \in 1..(k - 1) : revs[j].id # id
    ELSE 0

\* get_pending_revisions, as the sequence of the positions in _revisions
RECURSIVE PendingFrom(_, _)
PendingFrom(revs, k) ==
    IF k > Len(revs) THEN <<>>
    ELSE (IF ~revs[k].is_accepted /\ ~revs[k].is_rejected THEN <<k>> ELSE <<>>)
         \o PendingFrom(revs, k + 1)

\* mutant of already_processed: a rejected revision counts as unprocessed
already_processed_accepted_only(r) == r.is_accepted

\* the test both accept_revision and reject_revision make before they mutate
already_processed(r) == r.is_accepted \/ r.is_rejected

\* mutant of apply_revision: replace adds its run without clearing first
apply_revision_replace_keeps(paras, r) ==
    LET k == PyIndex(Len(paras), r.paragraph_index) IN
    IF k = 0
    THEN [raised |-> "IndexError", paragraphs |-> paras]
    ELSE [raised |-> "none",
          paragraphs |->
            CASE r.action = "insert" ->
                   IF Truthy(r.new_content)
                   THEN [paras EXCEPT ![k] = add_run(@, r.new_content[1])]
                   ELSE paras
              [] r.action = "delete" ->
                   [paras EXCEPT ![k] = clear(@)]
              [] r.action = "replace" ->
                   IF Truthy(r.new_content)
                   THEN [paras EXCEPT ![k] = add_run(@, r.new_content[1])]
                   ELSE paras
              [] OTHER -> paras]

\* _apply_revision: the document after, and IndexError when
\* paragraphs[paragraph_index] does not exist
apply_revision(paras, r) ==
    LET k == PyIndex(Len(paras), r.paragraph_index) IN
    IF k = 0
    THEN [raised |-> "IndexError", paragraphs |-> paras]
    ELSE [raised |-> "none",
          paragraphs |->
            CASE r.action = "insert" ->
                   IF Truthy(r.new_content)
                   THEN [paras EXCEPT ![k] = add_run(@, r.new_content[1])]
                   ELSE paras
              [] r.action = "delete" ->
                   [paras EXCEPT ![k] = clear(@)]
              [] r.action = "replace" ->
                   IF Truthy(r.new_content)
                   THEN [paras EXCEPT ![k] = add_run(clear(@), r.new_content[1])]
                   ELSE paras
              [] OTHER -> paras]

Outcome(raised, msg, paras, revs, clk) ==
    [raised |-> raised, msg |-> msg, paragraphs |-> paras,
     revisions |-> revs, now |-> clk]

\* accept_revision as a function of the handler's state
accept_revision_fn(paras, revs, clk, id, by) ==
    LET k == get_revision(revs, id) IN
    IF k = 0
    THEN Outcome("ValidationError", "Revision not found", paras, revs, clk)
    ELSE IF already_processed(revs[k])
    THEN Outcome("ValidationError", "Revision has already been processed",
                 paras, revs, clk)
    ELSE LET marked == [revs EXCEPT ![k].is_accepted = TRUE,
                                    ![k].accepted_at = Some(clk),
                                    ![k].accepted_by = by]
             applied == apply_revision(paras, marked[k])
         IN  Outcome(applied.raised, "", applied.paragraphs, marked, clk + 1)

\* mutant of reject_revision_fn: accepted_at is not stamped
reject_revision_fn_no_stamp(paras, revs, clk, id, by) ==
    LET k == get_revision(revs, id) IN
    IF k = 0
    THEN Outcome("ValidationError", "Revision not found", paras, revs, clk)
    ELSE IF already_processed(revs[k])
    THEN Outcome("ValidationError", "Revision has already been processed",
                 paras, revs, clk)
    ELSE Outcome("none", "", paras,
                 [revs EXCEPT ![k].is_rejected = TRUE,
                              ![k].accepted_by = by],
                 clk + 1)

\* mutant of reject_revision_fn: the rejected revision is applied to the
\* document as accept_revision applies it
reject_revision_fn_applies(paras, revs, clk, id, by) ==
    LET k == get_revision(revs, id) IN
    IF k = 0
    THEN Outcome("ValidationError", "Revision not found", paras, revs, clk)
    ELSE IF already_processed(revs[k])
    THEN Outcome("ValidationError", "Revision has already been processed",
                 paras, revs, clk)
    ELSE LET marked == [revs EXCEPT ![k].is_rejected = TRUE,
                                    ![k].accepted_at = Some(clk),
                                    ![k].accepted_by = by]
             applied == apply_revision(paras, marked[k])
         IN  Outcome(applied.raised, "", applied.paragraphs, marked, clk + 1)

\* reject_revision as a function of the handler's state
reject_revision_fn(paras, revs, clk, id, by) ==
    LET k == get_revision(revs, id) IN
    IF k = 0
    THEN Outcome("ValidationError", "Revision not found", paras, revs, clk)
    ELSE IF already_processed(revs[k])
    THEN Outcome("ValidationError", "Revision has already been processed",
                 paras, revs, clk)
    ELSE Outcome("none", "", paras,
                 [revs EXCEPT ![k].is_rejected = TRUE,
                              ![k].accepted_at = Some(clk),
                              ![k].accepted_by = by],
                 clk + 1)

\* the paragraphs _apply_revision clears while the revisions go from revs to
\* after: those of the delete and replace revisions accepted in between
cleared_paragraphs(paras, revs, after) ==
    {PyIndex(Len(paras), after[k].paragraph_index) :
        k \in {j \in 1..Len(revs) :
                  /\ ~revs[j].is_accepted /\ after[j].is_accepted
                  /\ \/ after[j].action = "delete"
                     \/ after[j].action = "replace" /\ Truthy(after[j].new_content)}}
        \ {0}

accept_revision(id, by) ==
    LET out == accept_revision_fn(paragraphs, revisions, now, id, by) IN
    /\ out.now <= MaxClock
    /\ paragraphs' = out.paragraphs
    /\ revisions' = out.revisions
    /\ now' = out.now
    /\ UNCHANGED <<next_id, issued>>
    /\ CommentsUnchanged
    /\ PartsUnchanged
    /\ bookmarks' = clear_bookmarks(bookmarks,
                        cleared_paragraphs(paragraphs, revisions, out.revisions))
    /\ call' = Call("accept_revision", id, None, out.raised, out.msg, -1)

reject_revision(id, by) ==
    LET out == reject_revision_fn(paragraphs, revisions, now, id, by) IN
    /\ out.now <= MaxClock
    /\ paragraphs' = out.paragraphs
    /\ revisions' = out.revisions
    /\ now' = out.now
    /\ UNCHANGED <<next_id, issued>>
    /\ CommentsUnchanged
    /\ PartsUnchanged
    /\ bookmarks' = bookmarks
    /\ call' = Call("reject_revision", id, None, out.raised, out.msg, -1)

RECURSIVE accept_loop(_, _, _, _, _, _)
\* the for loop of accept_all_revisions over the ids of the revisions that
\* were pending at the call: ValidationError is caught, anything else leaves
\* the loop and the method
accept_loop(ids, paras, revs, clk, by, count) ==
    IF ids = <<>>
    THEN [raised |-> "none", paragraphs |-> paras, revisions |-> revs,
          now |-> clk, ret |-> count]
    ELSE LET out == accept_revision_fn(paras, revs, clk, ids[1], by) IN
         IF out.raised = "none"
         THEN accept_loop(Tail(ids), out.paragraphs, out.revisions, out.now,
                          by, count + 1)
         ELSE IF out.raised = "ValidationError"
         THEN accept_loop(Tail(ids), out.paragraphs, out.revisions, out.now,
                          by, count)
         ELSE [raised |-> out.raised, paragraphs |-> out.paragraphs,
               revisions |-> out.revisions, now |-> out.now, ret |-> -1]

RECURSIVE reject_loop(_, _, _, _, _, _)
\* the for loop of reject_all_revisions
reject_loop(ids, paras, revs, clk, by, count) ==
    IF ids = <<>>
    THEN [raised |-> "none", paragraphs |-> paras, revisions |-> revs,
          now |-> clk, ret |-> count]
    ELSE LET out == reject_revision_fn(paras, revs, clk, ids[1], by) IN
         IF out.raised = "none"
         THEN reject_loop(Tail(ids), out.paragraphs, out.revisions, out.now,
                          by, count + 1)
         ELSE IF out.raised = "ValidationError"
         THEN reject_loop(Tail(ids), out.paragraphs, out.revisions, out.now,
                          by, count)
         ELSE [raised |-> out.raised, paragraphs |-> out.paragraphs,
               revisions |-> out.revisions, now |-> out.now, ret |-> -1]

\* the ids of the pending revisions, in list order
PendingIds(revs) ==
    LET pos == PendingFrom(revs, 1)
    IN  [j \in 1..Len(pos) |-> revs[pos[j]].id]

accept_all_revisions(by) ==
    LET out == accept_loop(PendingIds(revisions), paragraphs, revisions, now, by, 0) IN
    /\ now + Len(PendingIds(revisions)) <= MaxClock
    /\ paragraphs' = out.paragraphs
    /\ revisions' = out.revisions
    /\ now' = out.now
    /\ UNCHANGED <<next_id, issued>>
    /\ CommentsUnchanged
    /\ PartsUnchanged
    /\ bookmarks' = clear_bookmarks(bookmarks,
                        cleared_paragraphs(paragraphs, revisions, out.revisions))
    /\ call' = Call("accept_all_revisions", -1, None, out.raised, "", out.ret)

reject_all_revisions(by) ==
    LET out == reject_loop(PendingIds(revisions), paragraphs, revisions, now, by, 0) IN
    /\ now + Len(PendingIds(revisions)) <= MaxClock
    /\ paragraphs' = out.paragraphs
    /\ revisions' = out.revisions
    /\ now' = out.now
    /\ UNCHANGED <<next_id, issued>>
    /\ CommentsUnchanged
    /\ PartsUnchanged
    /\ bookmarks' = bookmarks
    /\ call' = Call("reject_all_revisions", -1, None, out.raised, "", out.ret)

clear_revision_history ==
    /\ paragraphs' = paragraphs
    /\ revisions' = <<>>
    /\ next_id' = 0
    /\ UNCHANGED <<now, issued>>
    /\ CommentsUnchanged
    /\ PartsUnchanged
    /\ bookmarks' = bookmarks
    /\ call' = Call("clear_revision_history", -1, None, "none", "",
                    Len(revisions))

-----------------------------------------------------------------------------
(* CommentHandler *)

add_comment(text, author, index, start, end) ==
    LET \* the dict of a new comment
        Comment(id, created) ==
            [id |-> id, text |-> text, author |-> author,
             paragraph_index |-> index, start_offset |-> start,
             end_offset |-> end, status |-> "open", created_at |-> created,
             replies |-> <<>>]
    IN
    /\ paragraphs' = paragraphs
    /\ UNCHANGED <<revisions, next_id, issued>>
    /\ PartsUnchanged
    /\ bookmarks' = bookmarks
    /\ IF index < 0 \/ index >= Len(paragraphs)
       THEN /\ UNCHANGED <<comments, comment_next_id, now>>
            /\ call' = Call("add_comment", index, Some(text),
                            "ValidationError", "out of range", -1)
       ELSE /\ Len(comments) < MaxComments
            /\ now < MaxClock
            /\ comment_next_id' = comment_next_id + 1
            /\ comments' = Append(comments,
                   Comment(comment_next_id, now))
            /\ now' = now + 1
            /\ call' = Call("add_comment", index, Some(text), "none", "",
                            comment_next_id)

\* get_comment: the position of the first comment with the id, 0 when there
\* is none (ValidationError 'Comment not found')
get_comment_fn(cms, id) ==
    IF \E k \in 1..Len(cms) : cms[k].id = id
    THEN CHOOSE k \in 1..Len(cms) :
             /\ cms[k].id = id
             /\ \A j \in 1..(k - 1) : cms[j].id # id
    ELSE 0

\* mutant of update_comment_fn: a resolved comment is left as it is
update_comment_fn_keeps_resolved(cms, id, text, status) ==
    LET k == get_comment_fn(cms, id) IN
    IF k = 0 THEN [raised |-> "ValidationError", comments |-> cms]
    ELSE IF cms[k].status = "resolved"
    THEN [raised |-> "none", comments |-> cms]
    ELSE LET withText == IF text # None
                         THEN [cms EXCEPT ![k].text = text[1]] ELSE cms
             withStatus == IF status # None
                           THEN [withText EXCEPT ![k].status = status[1]]
                           ELSE withText
         IN  [raised |-> "none", comments |-> withStatus]

\* update_comment as a function of the comment list: the first comment with
\* the id takes the text and the status that are not None
update_comment_fn(cms, id, text, status) ==
    LET k == get_comment_fn(cms, id) IN
    IF k = 0 THEN [raised |-> "ValidationError", comments |-> cms]
    ELSE LET withText == IF text # None
                         THEN [cms EXCEPT ![k].text = text[1]] ELSE cms
             withStatus == IF status # None
                           THEN [withText EXCEPT ![k].status = status[1]]
                           ELSE withText
         IN  [raised |-> "none", comments |-> withStatus]

\* the comment calls that neither add a comment nor a reply leave the
\* counter, the clock, the document and the revisions alone
CommentFrame ==
    /\ paragraphs' = paragraphs
    /\ UNCHANGED <<revisions, next_id, issued>>
    /\ PartsUnchanged
    /\ bookmarks' = bookmarks
    /\ UNCHANGED <<comment_next_id, now>>

update_comment(id, text, status) ==
    LET out == update_comment_fn(comments, id, text, status) IN
    /\ CommentFrame
    /\ comments' = out.comments
    /\ call' = Call("update_comment", id, text, out.raised,
                    IF out.raised = "none" THEN "" ELSE "Comment not found", -1)

resolve_comment(id) ==
    LET out == update_comment_fn(comments, id, None, Some("resolved")) IN
    /\ CommentFrame
    /\ comments' = out.comments
    /\ call' = Call("resolve_comment", id, None, out.raised,
                    IF out.raised = "none" THEN "" ELSE "Comment not found", -1)

reopen_comment(id) ==
    LET out == update_comment_fn(comments, id, None, Some("open")) IN
    /\ CommentFrame
    /\ comments' = out.comments
    /\ call' = Call("reopen_comment", id, None, out.raised,
                    IF out.raised = "none" THEN "" ELSE "Comment not found", -1)

\* mutant of pop_comment: the comments after the one removed go with it
pop_comment_truncates(cms, k) == SubSeq(cms, 1, k - 1)

\* self._comments.pop(i) for the comment at position k
pop_comment(cms, k) == SubSeq(cms, 1, k - 1) \o SubSeq(cms, k + 1, Len(cms))

delete_comment(id) ==
    LET k == get_comment_fn(comments, id) IN
    /\ CommentFrame
    /\ IF k = 0
       THEN /\ comments' = comments
            /\ call' = Call("delete_comment", id, None,
                            "ValidationError", "Comment not found", -1)
       ELSE /\ comments' = pop_comment(comments, k)
            /\ call' = Call("delete_comment", id, None, "none", "", -1)

add_reply(id, text, author) ==
    LET \* a reply of a comment
        Reply(rid, t, by, created) ==
            [id |-> rid, text |-> t, author |-> by, created_at |-> created]
    IN
    LET k == get_comment_fn(comments, id) IN
    /\ paragraphs' = paragraphs
    /\ UNCHANGED <<revisions, next_id, issued>>
    /\ PartsUnchanged
    /\ bookmarks' = bookmarks
    /\ IF k = 0
       THEN /\ UNCHANGED <<comments, comment_next_id, now>>
            /\ call' = Call("add_reply", id, Some(text),
                            "ValidationError", "Comment not found", -1)
       ELSE /\ now < MaxClock
            /\ comments' = [comments EXCEPT ![k].replies =
                               Append(@, Reply(comment_next_id, text, author, now))]
            /\ comment_next_id' = comment_next_id + 1
            /\ now' = now + 1
            /\ call' = Call("add_reply", id, Some(text), "none", "",
                            comment_next_id)

\* mutant of clear_all_comments: the counter starts again at 0
clear_all_comments_resets ==
    /\ paragraphs' = paragraphs
    /\ UNCHANGED <<revisions, next_id, issued>>
    /\ PartsUnchanged
    /\ bookmarks' = bookmarks
    /\ now' = now
    /\ comment_next_id' = 0
    /\ comments' = <<>>
    /\ call' = Call("clear_all_comments", -1, None, "none", "", Len(comments))

\* clear_all_comments: the list is emptied, the counter is kept
clear_all_comments ==
    /\ CommentFrame
    /\ comments' = <<>>
    /\ call' = Call("clear_all_comments", -1, None, "none", "", Len(comments))

\* a query changes neither the handler nor the document
QueryFrame ==
    UNCHANGED <<paragraphs, revisions, next_id, comments, comment_next_id,
                now, issued, bookmarks, styles, tables, stored, cached,
                tracking_enabled>>

get_comment(id) ==
    LET k == get_comment_fn(comments, id) IN
    /\ QueryFrame
    /\ IF k = 0
       THEN /\ returned' = <<>>
            /\ call' = Call("get_comment", id, None,
                            "ValidationError", "Comment not found", -1)
       ELSE /\ returned' = <<comments[k]>>
            /\ call' = Call("get_comment", id, None, "none", "", -1)

\* mutant of paragraph_comments: the comments anchored at or before the index
paragraph_comments_upto(cms, index) ==
    SelectSeq(cms, LAMBDA c : c.paragraph_index <= index)

\* the list comprehension of get_paragraph_comments
paragraph_comments(cms, index) ==
    SelectSeq(cms, LAMBDA c : c.paragraph_index = index)

get_paragraph_comments(index) ==
    /\ QueryFrame
    /\ IF index < 0 \/ index >= Len(paragraphs)
       THEN /\ returned' = <<>>
            /\ call' = Call("get_paragraph_comments", index, None,
                            "ValidationError", "out of range", -1)
       ELSE /\ returned' = paragraph_comments(comments, index)
            /\ call' = Call("get_paragraph_comments", index, None, "none", "", -1)

get_open_comments ==
    /\ QueryFrame
    /\ returned' = SelectSeq(comments, LAMBDA c : c.status = "open")
    /\ call' = Call("get_open_comments", -1, None, "none", "", -1)

get_comments_by_author(author) ==
    /\ QueryFrame
    /\ returned' = SelectSeq(comments, LAMBDA c : c.author = author)
    /\ call' = Call("get_comments_by_author", -1, Some(author), "none", "", -1)

get_comment_count ==
    LET resolved_comments(cms) == SelectSeq(cms, LAMBDA c : c.status = "resolved")
    IN
    /\ QueryFrame
    /\ returned' = [total |-> Len(comments),
                    open |-> Len(SelectSeq(comments, LAMBDA c : c.status = "open")),
                    resolved |-> Len(resolved_comments(comments))]
    /\ call' = Call("get_comment_count", -1, None, "none", "", -1)

-----------------------------------------------------------------------------
(* StyleHandler *)

\* A style of the document is a record of its name, the name its w:basedOn
\* refers to (base_style), the font size in points and whether it is a
\* built-in style.

\* document.styles[name]: the position of the style, 0 for KeyError
style_index(stys, name) ==
    IF \E k \in 1..Len(stys) : stys[k].name = name
    THEN CHOOSE k \in 1..Len(stys) : stys[k].name = name
    ELSE 0

\* StyleCreate(name=.., base_style=.., font_size=..) of schemas.py: the
\* constructor raises for an empty name and for a font size outside [6, 144]
StyleCreate(name, base_style, font_size) ==
    IF \/ name = ""
       \/ font_size # None /\ (font_size[1] < 6 \/ font_size[1] > 144)
    THEN [raised |-> "pydantic.ValidationError", name |-> name,
          base_style |-> None, font_size |-> None]
    ELSE [raised |-> "none", name |-> name, base_style |-> base_style,
          font_size |-> font_size]

\* the StyleDTO get_style builds: style.base_style is None when no style of
\* the document answers to the w:basedOn of the style
StyleDTO(stys, k) ==
    [name |-> stys[k].name,
     base_style |-> IF stys[k].base_style # None
                       /\ style_index(stys, stys[k].base_style[1]) # 0
                    THEN stys[k].base_style ELSE None,
     font_size |-> stys[k].font_size]

\* the arguments of a style call
StyleArgs(name, base_style, font_size) ==
    [name |-> name, base_style |-> base_style, font_size |-> font_size]

\* the style calls change nothing but the styles
StyleFrame ==
    UNCHANGED <<paragraphs, revisions, next_id, comments, comment_next_id,
                now, issued, bookmarks, tables, stored, cached,
                tracking_enabled>>

\* create_style on a StyleCreate: the styles after, or the ValidationError;
\* the base style is looked up after the style was added and a KeyError of
\* the lookup is suppressed
create_style_fn(stys, data) ==
    IF style_index(stys, data.name) # 0
    THEN [raised |-> "ValidationError", msg |-> "Style already exists",
          styles |-> stys]
    ELSE LET added == Append(stys, [name |-> data.name, base_style |-> None,
                                       font_size |-> None, builtin |-> FALSE])
             k == Len(added)
             based == IF Truthy(data.base_style)
                         /\ style_index(added, data.base_style[1]) # 0
                      THEN [added EXCEPT ![k].base_style = data.base_style]
                      ELSE added
             sized == IF data.font_size # None /\ data.font_size[1] # 0
                      THEN [based EXCEPT ![k].font_size = data.font_size]
                      ELSE based
         IN  [raised |-> "none", msg |-> "", styles |-> sized]

\* create_style(StyleCreate(name, base_style, font_size))
create_style(name, base_style, font_size) ==
    LET data == StyleCreate(name, base_style, font_size)
        args == Some(StyleArgs(name, base_style, font_size))
        out == create_style_fn(styles, data) IN
    /\ StyleFrame
    /\ IF data.raised # "none"
       THEN /\ styles' = styles
            /\ call' = Call("StyleCreate", -1, args, data.raised, "", -1)
       ELSE /\ styles' = out.styles
            /\ call' = Call("create_style", -1, args, out.raised, out.msg,
                            IF out.raised = "none"
                            THEN StyleDTO(out.styles, style_index(out.styles, name))
                            ELSE None)

\* update_style(name, updates) with the updates {"font_size": n} for
\* font_size = Some(n) and {} for None
update_style(name, font_size) ==
    LET k == style_index(styles, name)
        args == Some(StyleArgs(name, None, font_size)) IN
    /\ StyleFrame
    /\ IF k = 0
       THEN /\ styles' = styles
            /\ call' = Call("update_style", -1, args,
                            "ValidationError", "Style not found", None)
       ELSE /\ styles' = IF font_size # None /\ font_size[1] # 0
                         THEN [styles EXCEPT ![k].font_size = font_size]
                         ELSE styles
            /\ call' = Call("update_style", -1, args, "none", "",
                            StyleDTO(styles', k))

delete_style(name) ==
    LET k == style_index(styles, name)
        args == Some(StyleArgs(name, None, None)) IN
    /\ StyleFrame
    /\ IF k = 0
       THEN /\ styles' = styles
            /\ call' = Call("delete_style", -1, args,
                            "ValidationError", "Style not found", None)
       ELSE IF styles[k].builtin
       THEN /\ styles' = styles
            /\ call' = Call("delete_style", -1, args,
                            "ValidationError", "Cannot delete built-in style", None)
       ELSE /\ styles' = SubSeq(styles, 1, k - 1) \o SubSeq(styles, k + 1, Len(styles))
            /\ call' = Call("delete_style", -1, args, "none", "", None)

\* copy_style(source_name, new_name): the copy is created from the DTO of
\* the source with the source as its base style
copy_style(source_name, new_name) ==
    LET k == style_index(styles, source_name)
        args == Some(StyleArgs(new_name, Some(source_name), None)) IN
    /\ StyleFrame
    /\ IF k = 0
       THEN /\ styles' = styles
            /\ call' = Call("copy_style", -1, args,
                            "ValidationError", "Style not found", None)
       ELSE LET source == StyleDTO(styles, k)
                data == StyleCreate(new_name, Some(source_name), source.font_size)
                out == create_style_fn(styles, data) IN
            IF data.raised # "none"
            THEN /\ styles' = styles
                 /\ call' = Call("copy_style", -1, args, data.raised, "", None)
            ELSE /\ styles' = out.styles
                 /\ call' = Call("copy_style", -1, args, out.raised, out.msg,
                                 IF out.raised = "none"
                                 THEN StyleDTO(out.styles,
                                               style_index(out.styles, new_name))
                                 ELSE None)

get_style(name) ==
    LET k == style_index(styles, name)
        args == Some(StyleArgs(name, None, None)) IN
    /\ StyleFrame
    /\ styles' = styles
    /\ IF k = 0
       THEN call' = Call("get_style", -1, args,
                         "ValidationError", "Style not found", None)
       ELSE call' = Call("get_style", -1, args, "none", "", StyleDTO(styles, k))

-----------------------------------------------------------------------------
(* TableHandler *)

\* a w:tc element as new_tbl, add_row and add_column create it: one grid
\* column, no vMerge and one paragraph without runs
new_tc == [grid_span |-> 1, vMerge |-> "none", paras |-> <<(<<>>)>>]

\* a table is its w:tbl element: cols counts the w:gridCol elements of
\* w:tblGrid, trs holds the w:tr elements, each the sequence of its w:tc
\* elements, and at counts the body paragraphs in front of the table.
\* CT_Tbl.new_tbl(rows, cols) gives every row cols cells
new_tbl(rows, cols, at) ==
    [cols |-> cols, at |-> at,
     trs |-> [i \in 1..rows |-> [k \in 1..cols |-> new_tc]]]

RECURSIVE grid_offset(_, _)
\* CT_Tc.grid_offset (CT_Tc.left): the grid columns the cells in front of
\* cell k of the row span
grid_offset(tr, k) ==
    IF k <= 1 THEN 0 ELSE tr[k - 1].grid_span + grid_offset(tr, k - 1)

\* CT_Row.tc_at_grid_offset: the position of the cell that starts at the
\* grid offset, 0 when no cell starts there (ValueError)
tc_at_grid_offset(tr, offset) ==
    IF \E k \in 1..Len(tr) : grid_offset(tr, k) = offset
    THEN CHOOSE k \in 1..Len(tr) : grid_offset(tr, k) = offset
    ELSE 0

\* _validate_table_index: TRUE when the index is accepted
validate_table_index(tbls, index) == ~(index < 0 \/ index >= Len(tbls))

\* _validate_table_dimensions: TRUE when the dimensions are accepted
validate_table_dimensions(rows, cols) ==
    LET MAX_TABLE_ROWS == 32767
        MAX_TABLE_COLUMNS == 63
    IN
    /\ ~(rows < 1 \/ rows > MAX_TABLE_ROWS)
    /\ ~(cols < 1 \/ cols > MAX_TABLE_COLUMNS)

\* _validate_cell_indices: TRUE when row and column are accepted; len(table.rows)
\* counts the w:tr elements and len(table.columns) the w:gridCol elements
validate_cell_indices(table, row, col) ==
    /\ ~(row < 0 \/ row >= Len(table.trs))
    /\ ~(col < 0 \/ col >= table.cols)

\* table.cell(row, col): Table._cells lists one entry per grid column of
\* every w:tc in document order, a vMerge=continue cell repeating the entry
\* col_count places back (IndexError when there are fewer); the cell is the
\* entry at col + row * col_count (IndexError past the end). A cell is named
\* <<i, k>>, w:tc k of w:tr i
table_cell(table, row, col) ==
    LET RECURSIVE repeat_above(_, _)
        repeat_above(cells, n) ==
            IF n = 0 THEN cells
            ELSE repeat_above(Append(cells, cells[Len(cells) - table.cols + 1]),
                              n - 1)
        RECURSIVE cells_from(_, _, _)
        cells_from(i, k, cells) ==
            IF i > Len(table.trs) THEN [raised |-> "none", cells |-> cells]
            ELSE IF k > Len(table.trs[i]) THEN cells_from(i + 1, 1, cells)
            ELSE LET tc == table.trs[i][k] IN
                 IF tc.vMerge = "continue"
                 THEN IF Len(cells) < table.cols
                      THEN [raised |-> "IndexError", cells |-> cells]
                      ELSE cells_from(i, k + 1, repeat_above(cells, tc.grid_span))
                 ELSE cells_from(i, k + 1,
                                 cells \o [g \in 1..tc.grid_span |-> <<i, k>>])
        all == cells_from(1, 1, <<>>)
        cell_idx == col + row * table.cols
    IN  IF all.raised # "none" \/ cell_idx >= Len(all.cells)
        THEN [raised |-> "IndexError", tc |-> <<>>]
        ELSE [raised |-> "none", tc |-> all.cells[cell_idx + 1]]

\* CT_Tc.merge(other_tc) on the rows of a table, a and b the two cells: the
\* outcome and the rows as the call leaves them, which for a refused merge
\* are the rows with the part of the merge that was done before the refusal
merge(rows, a, b) ==
    LET Raise(error, trs) == [raised |-> error, trs |-> trs]
        left(trs, c) == grid_offset(trs[c[1]], c[2])
        right(trs, c) == left(trs, c) + trs[c[1]][c[2]].grid_span
        \* CT_Tc.top: the index of the row the vertical span of the cell starts
        \* in, -1 when a continued cell has no cell above it (ValueError)
        RECURSIVE top(_, _)
        top(trs, c) ==
            IF trs[c[1]][c[2]].vMerge # "continue" THEN c[1] - 1
            ELSE IF c[1] = 1 THEN -1
            ELSE LET above == tc_at_grid_offset(trs[c[1] - 1], left(trs, c)) IN
                 IF above = 0 THEN -1 ELSE top(trs, <<c[1] - 1, above>>)
        \* CT_Tc.bottom: the index of the row below the vertical span of the
        \* cell, -1 when the row below has no cell at its offset (ValueError)
        RECURSIVE bottom(_, _)
        bottom(trs, c) ==
            IF trs[c[1]][c[2]].vMerge # "none" /\ c[1] < Len(trs)
            THEN LET below == tc_at_grid_offset(trs[c[1] + 1], left(trs, c)) IN
                 IF below = 0 THEN -1
                 ELSE IF trs[c[1] + 1][below].vMerge = "continue"
                 THEN bottom(trs, <<c[1] + 1, below>>)
                 ELSE c[1]
            ELSE c[1]
        Min(x, y) == IF x < y THEN x ELSE y
        Max(x, y) == IF x > y THEN x ELSE y
        \* CT_Tc._span_dimensions, its comparisons in the order they are made
        span_dimensions ==
            LET top_most == IF top(rows, a) < top(rows, b) THEN a ELSE b
                other == IF top(rows, a) < top(rows, b) THEN b ELSE a
                left_most == IF left(rows, a) < left(rows, b) THEN a ELSE b
                right_of == IF left(rows, a) < left(rows, b) THEN b ELSE a
                dims == [raised |-> "none",
                         top |-> Min(top(rows, a), top(rows, b)),
                         left |-> Min(left(rows, a), left(rows, b)),
                         height |-> Max(bottom(rows, a), bottom(rows, b))
                                    - Min(top(rows, a), top(rows, b)),
                         width |-> Max(right(rows, a), right(rows, b))
                                   - Min(left(rows, a), left(rows, b))]
                bottoms_fail == bottom(rows, a) = -1 \/ bottom(rows, b) = -1
            IN  IF top(rows, a) = -1 \/ top(rows, b) = -1
                THEN [dims EXCEPT !.raised = "ValueError"]
                \* raise_on_inverted_L
                ELSE IF top(rows, a) = top(rows, b) /\ bottoms_fail
                THEN [dims EXCEPT !.raised = "ValueError"]
                ELSE IF top(rows, a) = top(rows, b)
                        /\ bottom(rows, a) # bottom(rows, b)
                THEN [dims EXCEPT !.raised = "InvalidSpanError"]
                ELSE IF left(rows, a) = left(rows, b)
                        /\ right(rows, a) # right(rows, b)
                THEN [dims EXCEPT !.raised = "InvalidSpanError"]
                \* raise_on_tee_shaped
                ELSE IF top(rows, top_most) < top(rows, other) /\ bottoms_fail
                THEN [dims EXCEPT !.raised = "ValueError"]
                ELSE IF top(rows, top_most) < top(rows, other)
                        /\ bottom(rows, top_most) > bottom(rows, other)
                THEN [dims EXCEPT !.raised = "InvalidSpanError"]
                ELSE IF left(rows, left_most) < left(rows, right_of)
                        /\ right(rows, left_most) > right(rows, right_of)
                THEN [dims EXCEPT !.raised = "InvalidSpanError"]
                ELSE dims
        \* CT_Tc._move_content_to: nothing for the cell itself or for a cell
        \* whose only paragraph has no run; otherwise the receiver loses a
        \* last paragraph without runs, takes the paragraphs of the cell and
        \* the cell is left with one new paragraph
        move_content_to(trs, c, into) ==
            LET mine == trs[c[1]][c[2]].paras
                theirs == trs[into[1]][into[2]].paras IN
            IF c = into \/ mine = <<(<<>>)>> THEN trs
            ELSE [trs EXCEPT
                     ![into[1]][into[2]].paras =
                         (IF theirs[Len(theirs)] = <<>>
                          THEN SubSeq(theirs, 1, Len(theirs) - 1)
                          ELSE theirs) \o mine,
                     ![c[1]][c[2]].paras = <<(<<>>)>>]
        \* the loop of CT_Tc._span_to_width: _swallow_next_tc until the cell
        \* spans grid_width columns
        RECURSIVE swallow_next_tc(_, _, _, _)
        swallow_next_tc(trs, c, grid_width, top_tc) ==
            LET tr == trs[c[1]]
                k == c[2] IN
            IF ~(tr[k].grid_span < grid_width) THEN Raise("none", trs)
            \* not enough grid columns
            ELSE IF k = Len(tr) THEN Raise("InvalidSpanError", trs)
            \* span is not rectangular
            ELSE IF tr[k].grid_span + tr[k + 1].grid_span > grid_width
            THEN Raise("InvalidSpanError", trs)
            ELSE LET moved == move_content_to(trs, <<c[1], k + 1>>, top_tc) IN
                 swallow_next_tc(
                     [moved EXCEPT ![c[1]] =
                         [j \in 1..(Len(tr) - 1) |->
                             IF j < k THEN moved[c[1]][j]
                             ELSE IF j = k
                             THEN [moved[c[1]][k] EXCEPT
                                      !.grid_span = @ + tr[k + 1].grid_span]
                             ELSE moved[c[1]][j + 1]]],
                     c, grid_width, top_tc)
        \* CT_Tc._grow_to: the cell is widened and marked, then the cell
        \* below it at the same offset, for height rows
        RECURSIVE grow_to(_, _, _, _, _)
        grow_to(trs, c, width, height, top_tc) ==
            LET vMerge == IF top_tc # c THEN "continue"
                          ELSE IF height = 1 THEN "none" ELSE "restart"
                spanned == swallow_next_tc(move_content_to(trs, c, top_tc),
                                           c, width, top_tc)
                marked == [spanned.trs EXCEPT ![c[1]][c[2]].vMerge = vMerge]
                below == IF c[1] < Len(marked)
                         THEN tc_at_grid_offset(marked[c[1] + 1], left(marked, c))
                         ELSE 0
            IN  IF spanned.raised # "none" THEN spanned
                ELSE IF ~(height > 1) THEN Raise("none", marked)
                ELSE IF below = 0 THEN Raise("ValueError", marked)
                ELSE grow_to(marked, <<c[1] + 1, below>>, width, height - 1, top_tc)
        dimensions == span_dimensions
        top_k == tc_at_grid_offset(rows[dimensions.top + 1], dimensions.left)
    IN  IF dimensions.raised # "none" THEN Raise(dimensions.raised, rows)
        ELSE IF top_k = 0 THEN Raise("ValueError", rows)
        ELSE grow_to(rows, <<dimensions.top + 1, top_k>>,
                     dimensions.width, dimensions.height,
                     <<dimensions.top + 1, top_k>>)

\* the table calls change nothing but the tables
TableFrame ==
    UNCHANGED <<paragraphs, revisions, next_id, comments, comment_next_id,
                now, issued, bookmarks, styles, stored, cached,
                tracking_enabled>>

\* the arguments of a cell call
CellArgs(start_row, start_col, end_row, end_col, text) ==
    [start_row |-> start_row, start_col |-> start_col,
     end_row |-> end_row, end_col |-> end_col, text |-> text]

\* add_table(rows, cols) without style and data: Document.add_table puts
\* the table at the end of the body
add_table(rows, cols) ==
    LET args == Some(CellArgs(rows, cols, rows, cols, None)) IN
    /\ TableFrame
    /\ IF ~validate_table_dimensions(rows, cols)
       THEN /\ tables' = tables
            /\ call' = Call("add_table", -1, args,
                            "ValidationError", "dimensions", -1)
       ELSE /\ tables' = Append(tables, new_tbl(rows, cols, Len(paragraphs)))
            /\ call' = Call("add_table", -1, args, "none", "", Len(tables') - 1)

\* insert_table_after_paragraph(paragraph_index, rows, cols) without style
\* and data: the table is added at the end of the body and then moved
\* behind the paragraph, in front of the tables that followed the paragraph;
\* the index returned is that of the last table of the document
insert_table_after_paragraph(paragraph_index, rows, cols) ==
    LET args == Some(CellArgs(rows, cols, rows, cols, None))
        in_front == {t \in 1..Len(tables) : tables[t].at <= paragraph_index}
        table == new_tbl(rows, cols, paragraph_index + 1) IN
    /\ TableFrame
    /\ IF ~validate_table_dimensions(rows, cols)
       THEN /\ tables' = tables
            /\ call' = Call("insert_table_after_paragraph", paragraph_index,
                            args, "ValidationError", "dimensions", -1)
       ELSE IF paragraph_index < 0 \/ paragraph_index >= Len(paragraphs)
       THEN /\ tables' = tables
            /\ call' = Call("insert_table_after_paragraph", paragraph_index,
                            args, "ValidationError", "out of range", -1)
       ELSE /\ tables' = SubSeq(tables, 1, Cardinality(in_front)) \o <<table>>
                         \o SubSeq(tables, Cardinality(in_front) + 1, Len(tables))
            /\ call' = Call("insert_table_after_paragraph", paragraph_index,
                            args, "none", "", Len(tables') - 1)

delete_table(index) ==
    /\ TableFrame
    /\ IF ~validate_table_index(tables, index)
       THEN /\ tables' = tables
            /\ call' = Call("delete_table", index, None,
                            "ValidationError", "Table index out of range", -1)
       ELSE /\ tables' = SubSeq(tables, 1, index)
                         \o SubSeq(tables, index + 2, Len(tables))
            /\ call' = Call("delete_table", index, None, "none", "", -1)

\* add_row(table_index): Table.add_row appends a row with one cell per
\* w:gridCol; the limit is MAX_TABLE_ROWS
add_row(table_index) ==
    /\ TableFrame
    /\ IF ~validate_table_index(tables, table_index)
       THEN /\ tables' = tables
            /\ call' = Call("add_row", table_index, None,
                            "ValidationError", "Table index out of range", -1)
       ELSE IF Len(tables[table_index + 1].trs) >= 32767
       THEN /\ tables' = tables
            /\ call' = Call("add_row", table_index, None,
                            "ValidationError", "Maximum rows exceeded", -1)
       ELSE /\ tables' = [tables EXCEPT ![table_index + 1].trs =
                             Append(@, [k \in 1..tables[table_index + 1].cols
                                           |-> new_tc])]
            /\ call' = Call("add_row", table_index, None, "none", "",
                            Len(tables'[table_index + 1].trs) - 1)

\* add_column(table_index): Table.add_column adds a w:gridCol and appends a
\* cell to every row; the limit is MAX_TABLE_COLUMNS
add_column(table_index) ==
    /\ TableFrame
    /\ IF ~validate_table_index(tables, table_index)
       THEN /\ tables' = tables
            /\ call' = Call("add_column", table_index, None,
                            "ValidationError", "Table index out of range", -1)
       ELSE IF tables[table_index + 1].cols >= 63
       THEN /\ tables' = tables
            /\ call' = Call("add_column", table_index, None,
                            "ValidationError", "Maximum columns exceeded", -1)
       ELSE /\ tables' = [tables EXCEPT
                             ![table_index + 1].cols = @ + 1,
                             ![table_index + 1].trs =
                                 [i \in 1..Len(@) |-> Append(@[i], new_tc)]]
            /\ call' = Call("add_column", table_index, None, "none", "",
                            tables'[table_index + 1].cols - 1)

\* delete_row(table_index, row_index): the w:tr is removed
delete_row(table_index, row_index) ==
    /\ TableFrame
    /\ IF ~validate_table_index(tables, table_index)
       THEN /\ tables' = tables
            /\ call' = Call("delete_row", table_index, Some(row_index),
                            "ValidationError", "Table index out of range", -1)
       ELSE IF row_index < 0 \/ row_index >= Len(tables[table_index + 1].trs)
       THEN /\ tables' = tables
            /\ call' = Call("delete_row", table_index, Some(row_index),
                            "ValidationError", "Row index out of range", -1)
       ELSE /\ tables' = [tables EXCEPT ![table_index + 1].trs =
                             SubSeq(@, 1, row_index)
                             \o SubSeq(@, row_index + 2, Len(@))]
            /\ call' = Call("delete_row", table_index, Some(row_index),
                            "none", "", -1)

\* delete_column(table_index, col_index): for every row in turn the w:tc
\* behind row.cells[col_index] is removed from the row it is in; the
\* w:gridCol elements stay. _Row.cells lists, for each w:tc of the row, the
\* cell that holds its content (for a vMerge=continue cell the cell the
\* vertical span starts with, ValueError when there is none) once per grid
\* column of that cell; IndexError when the row has no entry col_index
delete_column(table_index, col_index) ==
    LET RECURSIVE root(_, _, _)
        root(trs, i, k) ==
            IF trs[i][k].vMerge # "continue" THEN <<i, k>>
            ELSE IF i = 1 THEN <<>>
            ELSE LET above == tc_at_grid_offset(trs[i - 1], grid_offset(trs[i], k))
                 IN  IF above = 0 THEN <<>> ELSE root(trs, i - 1, above)
        RECURSIVE cells(_, _, _)
        cells(trs, i, k) ==
            IF k > Len(trs[i]) THEN <<>>
            ELSE LET c == root(trs, i, k) IN
                 IF c = <<>> THEN <<c>>
                 ELSE [g \in 1..trs[c[1]][c[2]].grid_span |-> c]
                      \o cells(trs, i, k + 1)
        remove(tr, k) == SubSeq(tr, 1, k - 1) \o SubSeq(tr, k + 1, Len(tr))
        RECURSIVE rows_from(_, _)
        rows_from(trs, i) ==
            IF i > Len(trs) THEN [raised |-> "none", trs |-> trs]
            ELSE LET row == cells(trs, i, 1) IN
                 IF \E j \in 1..Len(row) : row[j] = <<>>
                 THEN [raised |-> "ValueError", trs |-> trs]
                 ELSE IF col_index >= Len(row)
                 THEN [raised |-> "IndexError", trs |-> trs]
                 ELSE LET c == row[col_index + 1] IN
                      rows_from([trs EXCEPT ![c[1]] = remove(@, c[2])], i + 1)
    IN
    /\ TableFrame
    /\ IF ~validate_table_index(tables, table_index)
       THEN /\ tables' = tables
            /\ call' = Call("delete_column", table_index, Some(col_index),
                            "ValidationError", "Table index out of range", -1)
       ELSE IF col_index < 0 \/ col_index >= tables[table_index + 1].cols
       THEN /\ tables' = tables
            /\ call' = Call("delete_column", table_index, Some(col_index),
                            "ValidationError", "Column index out of range", -1)
       ELSE LET out == rows_from(tables[table_index + 1].trs, 1) IN
            /\ tables' = [tables EXCEPT ![table_index + 1].trs = out.trs]
            /\ call' = Call("delete_column", table_index, Some(col_index),
                            out.raised, "", -1)

\* get_cell(table_index, row, col): the CellDTO holds cell.text, the texts
\* of the paragraphs of the cell joined by a newline
get_cell(table_index, row, col) ==
    LET args == Some(CellArgs(row, col, row, col, None))
        RECURSIVE join(_)
        join(paras) ==
            IF Len(paras) = 1 THEN ParaText(paras[1])
            ELSE ParaText(paras[1]) \o <<"\n">> \o join(Tail(paras))
    IN
    /\ TableFrame
    /\ tables' = tables
    /\ IF ~validate_table_index(tables, table_index)
       THEN call' = Call("get_cell", table_index, args,
                         "ValidationError", "Table index out of range", -1)
       ELSE IF ~validate_cell_indices(tables[table_index + 1], row, col)
       THEN call' = Call("get_cell", table_index, args,
                         "ValidationError", "out of range", -1)
       ELSE LET cell == table_cell(tables[table_index + 1], row, col) IN
            IF cell.raised # "none"
            THEN call' = Call("get_cell", table_index, args, cell.raised, "", -1)
            ELSE call' = Call("get_cell", table_index, args, "none", "",
                              join(tables[table_index + 1]
                                       .trs[cell.tc[1]][cell.tc[2]].paras))

\* set_cell(table_index, row, col, text): cell.text = text replaces the
\* content of the cell by one paragraph of one run
set_cell(table_index, row, col, text) ==
    LET args == Some(CellArgs(row, col, row, col, Some(text))) IN
    /\ TableFrame
    /\ IF ~validate_table_index(tables, table_index)
       THEN /\ tables' = tables
            /\ call' = Call("set_cell", table_index, args,
                            "ValidationError", "Table index out of range", -1)
       ELSE IF ~validate_cell_indices(tables[table_index + 1], row, col)
       THEN /\ tables' = tables
            /\ call' = Call("set_cell", table_index, args,
                            "ValidationError", "out of range", -1)
       ELSE LET cell == table_cell(tables[table_index + 1], row, col) IN
            IF cell.raised # "none"
            THEN /\ tables' = tables
                 /\ call' = Call("set_cell", table_index, args,
                                 cell.raised, "", -1)
            ELSE /\ tables' = [tables EXCEPT
                                  ![table_index + 1].trs[cell.tc[1]][cell.tc[2]].paras =
                                      <<add_run(<<>>, text)>>]
                 /\ call' = Call("set_cell", table_index, args, "none", "", text)

\* mutant of merge_cells: an inverted range is handed to the merge of the
\* two cells
merge_cells_any_order(table_index, start_row, start_col, end_row, end_col) ==
    LET args == Some(CellArgs(start_row, start_col, end_row, end_col, None)) IN
    /\ TableFrame
    /\ IF ~validate_table_index(tables, table_index)
       THEN /\ tables' = tables
            /\ call' = Call("merge_cells", table_index, args,
                            "ValidationError", "Table index out of range", -1)
       ELSE LET table == tables[table_index + 1] IN
            IF \/ ~validate_cell_indices(table, start_row, start_col)
               \/ ~validate_cell_indices(table, end_row, end_col)
            THEN /\ tables' = tables
                 /\ call' = Call("merge_cells", table_index, args,
                                 "ValidationError", "out of range", -1)
            ELSE LET start_cell == table_cell(table, start_row, start_col)
                     end_cell == table_cell(table, end_row, end_col) IN
                 IF start_cell.raised # "none" \/ end_cell.raised # "none"
                 THEN /\ tables' = tables
                      /\ call' = Call("merge_cells", table_index, args,
                                      "IndexError", "", -1)
                 ELSE LET out == merge(table.trs, start_cell.tc, end_cell.tc) IN
                      /\ tables' = [tables EXCEPT ![table_index + 1].trs = out.trs]
                      /\ call' = Call("merge_cells", table_index, args,
                                      out.raised, "", -1)

\* merge_cells(table_index, start_row, start_col, end_row, end_col): the
\* indices are validated, then the range, then the two cells are looked up
\* and merged
merge_cells(table_index, start_row, start_col, end_row, end_col) ==
    LET args == Some(CellArgs(start_row, start_col, end_row, end_col, None)) IN
    /\ TableFrame
    /\ IF ~validate_table_index(tables, table_index)
       THEN /\ tables' = tables
            /\ call' = Call("merge_cells", table_index, args,
                            "ValidationError", "Table index out of range", -1)
       ELSE LET table == tables[table_index + 1] IN
            IF \/ ~validate_cell_indices(table, start_row, start_col)
               \/ ~validate_cell_indices(table, end_row, end_col)
            THEN /\ tables' = tables
                 /\ call' = Call("merge_cells", table_index, args,
                                 "ValidationError", "out of range", -1)
            ELSE IF start_row > end_row \/ start_col > end_col
            THEN /\ tables' = tables
                 /\ call' = Call("merge_cells", table_index, args,
                                 "ValidationError", "Invalid cell range for merge", -1)
            ELSE LET start_cell == table_cell(table, start_row, start_col)
                     end_cell == table_cell(table, end_row, end_col) IN
                 IF start_cell.raised # "none" \/ end_cell.raised # "none"
                 THEN /\ tables' = tables
                      /\ call' = Call("merge_cells", table_index, args,
                                      "IndexError", "", -1)
                 ELSE LET out == merge(table.trs, start_cell.tc, end_cell.tc) IN
                      /\ tables' = [tables EXCEPT ![table_index + 1].trs = out.trs]
                      /\ call' = Call("merge_cells", table_index, args,
                                      out.raised, "", -1)

-----------------------------------------------------------------------------
(* TocHandler: bookmarks *)

\* the bookmark calls change nothing but the bookmark elements
BookmarkFrame ==
    UNCHANGED <<paragraphs, revisions, next_id, comments, comment_next_id,
                now, issued, styles, tables, stored, cached,
                tracking_enabled>>

\* add_bookmark(name, paragraph_index): the start element goes to the front
\* of the paragraph and the end element to its back, under a random id
add_bookmark(name, paragraph_index) ==
    LET \* the values random.randint(1000000, 9999999) is modelled to return: two
        \* of them, so that two calls can draw the same id
        BookmarkIds == {1000000, 1000001}
        \* the w:bookmarkStart and w:bookmarkEnd elements of a bookmark
        BookmarkStart(id, given) == [tag |-> "bookmarkStart", id |-> id, name |-> given]
        BookmarkEnd(id) == [tag |-> "bookmarkEnd", id |-> id, name |-> ""]
    IN
    /\ BookmarkFrame
    /\ IF paragraph_index < 0 \/ paragraph_index >= Len(paragraphs)
       THEN /\ bookmarks' = bookmarks
            /\ call' = Call("add_bookmark", paragraph_index, Some(name),
                            "ValidationError", "out of range", None)
       ELSE \E bookmark_id \in BookmarkIds :
            /\ bookmarks' = [bookmarks EXCEPT ![paragraph_index + 1] =
                                 <<BookmarkStart(bookmark_id, name)>> \o @
                                     \o <<BookmarkEnd(bookmark_id)>>]
            /\ call' = Call("add_bookmark", paragraph_index, Some(name), "none", "",
                            [name |-> name, paragraph_index |-> paragraph_index])

RECURSIVE scan_paragraph(_, _, _, _)
\* the inner loop of delete_bookmark over the children of one paragraph:
\* the elements kept, the bookmark_id after the paragraph and whether a
\* start element with the name was seen
scan_paragraph(elems, name, bookmark_id, found) ==
    IF elems = <<>>
    THEN [kept |-> <<>>, bookmark_id |-> bookmark_id, found |-> found]
    ELSE LET elem == elems[1] IN
         IF elem.tag = "bookmarkStart" /\ elem.name = name
         THEN scan_paragraph(Tail(elems), name, Some(elem.id), TRUE)
         ELSE IF elem.tag = "bookmarkEnd" /\ Some(elem.id) = bookmark_id
         THEN scan_paragraph(Tail(elems), name, bookmark_id, found)
         ELSE LET rest == scan_paragraph(Tail(elems), name, bookmark_id, found)
              IN  [rest EXCEPT !.kept = <<elem>> \o @]

RECURSIVE scan_document(_, _, _, _)
\* the outer loop of delete_bookmark over the paragraphs: bookmark_id and
\* found are carried from one paragraph to the next
scan_document(marks, name, bookmark_id, found) ==
    IF marks = <<>>
    THEN [marks |-> <<>>, found |-> found]
    ELSE LET first == scan_paragraph(marks[1], name, bookmark_id, found)
             rest == scan_document(Tail(marks), name,
                                   first.bookmark_id, first.found)
         IN  [marks |-> <<first.kept>> \o rest.marks, found |-> rest.found]

delete_bookmark(name) ==
    LET out == scan_document(bookmarks, name, None, FALSE) IN
    /\ BookmarkFrame
    /\ bookmarks' = out.marks
    /\ call' = IF out.found
               THEN Call("delete_bookmark", -1, Some(name), "none", "", None)
               ELSE Call("delete_bookmark", -1, Some(name),
                         "ValidationError", "Bookmark not found", None)

RECURSIVE note_names(_, _, _)
\* the inner loop of get_bookmarks: a name that is not empty and not yet in
\* the dict is entered with the index of the paragraph
note_names(names, i, seen) ==
    IF names = <<>> THEN seen
    ELSE note_names(Tail(names), i,
             IF names[1] # "" /\ \A k \in 1..Len(seen) : seen[k].name # names[1]
             THEN Append(seen, [name |-> names[1], paragraph_index |-> i])
             ELSE seen)

RECURSIVE bookmark_names(_, _, _)
\* the dict get_bookmarks fills, as the list it returns: for every name the
\* index of the first paragraph that has a start element with it
bookmark_names(marks, i, seen) ==
    LET \* the names of the start elements of a paragraph, in order
        StartNames(elems) ==
            LET starts == SelectSeq(elems, LAMBDA e : e.tag = "bookmarkStart")
            IN  [j \in 1..Len(starts) |-> starts[j].name]
    IN
    IF i >= Len(marks) THEN seen
    ELSE bookmark_names(marks, i + 1, note_names(StartNames(marks[i + 1]), i, seen))

get_bookmarks ==
    /\ BookmarkFrame
    /\ bookmarks' = bookmarks
    /\ call' = Call("get_bookmarks", -1, None, "none", "",
                    bookmark_names(bookmarks, 0, <<>>))

-----------------------------------------------------------------------------
(* TocHandler: hyperlinks *)

\* add_hyperlink(text, url, paragraph_index, offset): the url becomes an
\* external relationship of the document part, then the w:hyperlink element
\* is parsed from a string that holds the text as it is, and appended to the
\* paragraph behind its last child. A text with '<' or '&' is not character
\* data and parse_xml raises on it. The offset is never read
add_hyperlink(t, url, paragraph_index) ==
    /\ RevUnchanged
    /\ CommentsUnchanged
    /\ PartsUnchanged
    /\ bookmarks' = bookmarks
    /\ IF paragraph_index < 0 \/ paragraph_index >= Len(paragraphs)
       THEN /\ paragraphs' = paragraphs
            /\ call' = Call("add_hyperlink", paragraph_index, Some(t),
                            "ValidationError", "out of range", None)
       ELSE IF \E k \in 1..Len(t) : t[k] \in {"<", "&"}
       THEN /\ paragraphs' = paragraphs
            /\ call' = Call("add_hyperlink", paragraph_index, Some(t),
                            "XMLSyntaxError", "", None)
       ELSE /\ paragraphs' = [paragraphs EXCEPT ![paragraph_index + 1] =
                                 Append(@, [text |-> t, target |-> Some(url),
                                            anchor |-> None])]
            /\ call' = Call("add_hyperlink", paragraph_index, Some(t), "none", "",
                            [text |-> t, url |-> url,
                             paragraph_index |-> paragraph_index])

\* add_internal_link(text, bookmark_name, paragraph_index): the w:hyperlink
\* element carries the name as its w:anchor and no relationship; no bookmark
\* of that name is looked for. The url of the DTO is '#' followed by the name
add_internal_link(t, bookmark_name, paragraph_index) ==
    /\ RevUnchanged
    /\ CommentsUnchanged
    /\ PartsUnchanged
    /\ bookmarks' = bookmarks
    /\ IF paragraph_index < 0 \/ paragraph_index >= Len(paragraphs)
       THEN /\ paragraphs' = paragraphs
            /\ call' = Call("add_internal_link", paragraph_index, Some(t),
                            "ValidationError", "out of range", None)
       ELSE IF \E k \in 1..Len(t) : t[k] \in {"<", "&"}
       THEN /\ paragraphs' = paragraphs
            /\ call' = Call("add_internal_link", paragraph_index, Some(t),
                            "XMLSyntaxError", "", None)
       ELSE /\ paragraphs' = [paragraphs EXCEPT ![paragraph_index + 1] =
                                 Append(@, [text |-> t, target |-> None,
                                            anchor |-> Some(bookmark_name)])]
            /\ call' = Call("add_internal_link", paragraph_index, Some(t),
                            "none", "",
                            [text |-> t, url |-> <<"#", bookmark_name>>,
                             paragraph_index |-> paragraph_index])

\* update_toc(): the body is a pass statement
update_toc ==
    /\ RevUnchanged
    /\ CommentsUnchanged
    /\ PartsUnchanged
    /\ UNCHANGED <<paragraphs, bookmarks>>
    /\ call' = Call("update_toc", -1, None, "none", "", None)

\* get_hyperlinks(): one HyperlinkDTO for every w:hyperlink child with a
\* text, by paragraph and then in the order of the children. The url is '#'
\* and the anchor when the anchor is not empty, otherwise the target of the
\* relationship, otherwise ''
get_hyperlinks ==
    LET RECURSIVE links_from(_)
        links_from(i) ==
            IF i >= Len(paragraphs) THEN <<>>
            ELSE LET elems == SelectSeq(paragraphs[i + 1],
                                  LAMBDA elem : "anchor" \in DOMAIN elem
                                                   /\ Len(elem.text) > 0)
                 IN  [j \in 1..Len(elems) |->
                         [text |-> elems[j].text,
                          url |-> IF elems[j].anchor # None /\ elems[j].anchor[1] # ""
                                  THEN <<"#", elems[j].anchor[1]>>
                                  ELSE IF elems[j].target # None
                                  THEN elems[j].target[1]
                                  ELSE "",
                          paragraph_index |-> i]]
                     \o links_from(i + 1)
    IN
    /\ RevUnchanged
    /\ CommentsUnchanged
    /\ PartsUnchanged
    /\ UNCHANGED <<paragraphs, bookmarks>>
    /\ call' = Call("get_hyperlinks", -1, None, "none", "", links_from(0))

-----------------------------------------------------------------------------
(* DocumentHandler and the batch route *)

\* the core properties set_metadata writes
MetaFields == {"author", "title", "subject", "keywords", "comments", "category"}

\* a Document object as a request holds it: the body paragraphs and the
\* core properties (the parts the batch operations write)
Document(paras, meta) == [paragraphs |-> paras, metadata |-> meta]

\* save_document: the file holds the parts of the document; what a handler
\* keeps beside the document (revisions, comments) is not written
save_document(doc) == [paragraphs |-> doc.paragraphs, metadata |-> doc.metadata]

\* open_document: a new Document object with the parts the file holds
open_document(file) == Document(file.paragraphs, file.metadata)

\* the file of a document with the paragraphs and the template properties
Stored(paras) ==
    LET \* the core properties of the template
        Metadata0 == [f \in MetaFields |-> IF f = "author" THEN "python-docx" ELSE ""]
    IN
    save_document(Document(paras, Metadata0))

\* TextHandler.replace_text as a function of the paragraphs
replace_text_fn(paras, find, replace, case_sensitive, whole_word) ==
    LET out == [k \in 1..Len(paras) |->
                   replace_runs(paras[k], find, replace, case_sensitive, whole_word)]
    IN  [paragraphs |-> [k \in 1..Len(out) |->
                            [j \in 1..Len(out[k]) |->
                                [paras[k][j] EXCEPT !.text = out[k][j].text]]],
         count |-> SumOf([k \in 1..Len(out) |->
                            SumOf([j \in 1..Len(out[k]) |-> out[k][j].count])])]

\* execute_operation on the document of the request
execute_operation(operation, params, doc) ==
    LET \* the outcome of one operation: the exception, the document after and the
        \* result dict
        Executed(raised, after, result) ==
            [raised |-> raised, doc |-> after, result |-> result]
        \* set_metadata: the properties that are given are written
        set_metadata(meta, given) ==
            [f \in MetaFields |-> IF given[f] # None THEN given[f][1] ELSE meta[f]]
    IN
    CASE operation = "add_paragraph" ->
           LET text == IF params.text = None THEN <<>> ELSE params.text[1]
               paras == add_paragraph_fn(doc.paragraphs, text)
           IN  Executed("none", [doc EXCEPT !.paragraphs = paras],
                        [index |-> Len(paras) - 1])
      [] operation = "update_paragraph" ->
           IF params.index = None
           THEN Executed("KeyError", doc, None)
           ELSE IF ~validate_paragraph_index(doc.paragraphs, params.index[1])
           THEN Executed("ValidationError", doc, None)
           ELSE Executed("none",
                    IF params.text # None
                    THEN [doc EXCEPT !.paragraphs[params.index[1] + 1] =
                                         add_run(clear(@), params.text[1])]
                    ELSE doc,
                    [index |-> params.index[1]])
      [] operation = "delete_paragraph" ->
           IF params.index = None
           THEN Executed("KeyError", doc, None)
           ELSE IF ~validate_paragraph_index(doc.paragraphs, params.index[1])
           THEN Executed("ValidationError", doc, None)
           ELSE Executed("none",
                    [doc EXCEPT !.paragraphs = remove_paragraph(@, params.index[1])],
                    [deleted |-> TRUE])
      [] operation = "replace_text" ->
           IF params.find = None \/ params.replace = None
           THEN Executed("KeyError", doc, None)
           ELSE LET out == replace_text_fn(doc.paragraphs, params.find[1],
                               params.replace[1],
                               IF params.case_sensitive = None THEN FALSE
                               ELSE params.case_sensitive[1],
                               FALSE)
                IN  Executed("none", [doc EXCEPT !.paragraphs = out.paragraphs],
                             [replaced |-> out.count])
      [] operation = "set_metadata" ->
           Executed("none",
                    [doc EXCEPT !.metadata = set_metadata(@, params.metadata)],
                    [updated |-> TRUE])
      [] OTHER -> Executed("ValueError", doc, None)

\* mutant of batch_loop: the loop is left at the first failure whatever
\* stop_on_error says
RECURSIVE batch_loop_breaks(_, _, _, _, _, _, _)
batch_loop_breaks(operations, i, doc, results, errors, success, stop_on_error) ==
    IF i >= Len(operations)
    THEN [doc |-> doc, results |-> results, errors |-> errors, success |-> success]
    ELSE LET operation == operations[i + 1]
             out == execute_operation(operation.operation, operation.params, doc)
         IN  IF out.raised = "none"
             THEN batch_loop_breaks(operations, i + 1, out.doc,
                      Append(results, [index |-> i, operation |-> operation.operation,
                                       success |-> TRUE, result |-> out.result]),
                      errors, success, stop_on_error)
             ELSE [doc |-> out.doc, results |-> results,
                   errors |-> Append(errors,
                                [index |-> i, operation |-> operation.operation,
                                 error |-> out.raised]),
                   success |-> FALSE]

RECURSIVE batch_loop(_, _, _, _, _, _, _)
\* the for loop of execute_batch from operation i on
batch_loop(operations, i, doc, results, errors, success, stop_on_error) ==
    IF i >= Len(operations)
    THEN [doc |-> doc, results |-> results, errors |-> errors, success |-> success]
    ELSE LET operation == operations[i + 1]
             out == execute_operation(operation.operation, operation.params, doc)
         IN  IF out.raised = "none"
             THEN batch_loop(operations, i + 1, out.doc,
                      Append(results, [index |-> i, operation |-> operation.operation,
                                       success |-> TRUE, result |-> out.result]),
                      errors, success, stop_on_error)
             ELSE LET failed == Append(errors,
                                    [index |-> i, operation |-> operation.operation,
                                     error |-> out.raised])
                  IN  IF stop_on_error
                      THEN [doc |-> out.doc, results |-> results,
                            errors |-> failed, success |-> FALSE]
                      ELSE batch_loop(operations, i + 1, out.doc, results,
                                      failed, FALSE, stop_on_error)

\* the batch request: its operations and its flag
BatchRequest(operations, stop_on_error) ==
    [operations |-> operations, stop_on_error |-> stop_on_error]

BatchResult(success, results, errors) ==
    [success |-> success, results |-> results, errors |-> errors]

\* the batch route works on a document of its own and keeps no handler
BatchFrame ==
    UNCHANGED <<paragraphs, revisions, next_id, comments, comment_next_id,
                now, issued, bookmarks, styles, tables, cached,
                tracking_enabled>>

\* mutant of execute_batch: the document is saved after every batch
execute_batch_always_saves(operations, stop_on_error) ==
    LET doc == open_document(stored)
        out == batch_loop(operations, 0, doc, <<>>, <<>>, TRUE, stop_on_error)
    IN  /\ BatchFrame
        /\ stored' = save_document(out.doc)
        /\ call' = Call("execute_batch", -1,
                        Some(BatchRequest(operations, stop_on_error)),
                        "none", "saved",
                        BatchResult(out.success, out.results, out.errors))

\* execute_batch on the file of an existing document; the message of the
\* call records whether save_document was called
execute_batch(operations, stop_on_error) ==
    LET doc == open_document(stored)
        out == batch_loop(operations, 0, doc, <<>>, <<>>, TRUE, stop_on_error)
        saves == out.success \/ ~stop_on_error
    IN  /\ BatchFrame
        /\ stored' = IF saves THEN save_document(out.doc) ELSE stored
        /\ call' = Call("execute_batch", -1,
                        Some(BatchRequest(operations, stop_on_error)),
                        "none", IF saves THEN "saved" ELSE "",
                        BatchResult(out.success, out.results, out.errors))

-----------------------------------------------------------------------------
(* The revision routes: one document id, its file and the module-level     *)
(* dict _revision_handlers; paragraphs, revisions and next_id are the state *)
(* of the RevisionHandler the dict holds and of the Document object that    *)
(* handler was constructed with                                             *)

\* get_revision_handler: the request opens the file into a Document of its
\* own; a handler is constructed on that Document only when the dict has
\* none for the id, otherwise the handler of an earlier request is returned
\* with the Document of that request
get_revision_handler ==
    LET document == open_document(stored) IN
    IF ~cached
    THEN [document |-> document, shared |-> TRUE,
          paragraphs |-> document.paragraphs, revisions |-> <<>>, next_id |-> 0,
          bookmarks |-> [k \in 1..Len(document.paragraphs) |-> <<>>],
          tracking_enabled |-> FALSE]
    ELSE [document |-> document, shared |-> FALSE,
          paragraphs |-> paragraphs, revisions |-> revisions, next_id |-> next_id,
          bookmarks |-> bookmarks, tracking_enabled |-> tracking_enabled]

\* doc_handler.save_document() at the end of a request: the Document the
\* request opened is written, which is the Document of the handler only when
\* the handler was constructed by this request
save_request(h, paras) ==
    save_document(IF h.shared THEN Document(paras, h.document.metadata)
                  ELSE h.document)

\* the revision routes touch neither comments, styles nor tables
RouteFrame == UNCHANGED <<comments, comment_next_id, styles, tables>>

\* POST /documents/{id}/revisions with RevisionCreate(action,
\* paragraph_index, original_content, new_content); paragraph_index is None
\* or Some(i)
post_add_revision(action, author, paragraph_index, orig, new) ==
    LET h == get_revision_handler
        index == IF paragraph_index = None \/ paragraph_index[1] = 0
                 THEN 0 ELSE paragraph_index[1]
        \* RevisionHandler.add_revision on the state of the handler
        out == IF index < 0 \/ index >= Len(h.paragraphs)
               THEN [raised |-> "ValidationError", msg |-> "out of range",
                     revisions |-> h.revisions, next_id |-> h.next_id,
                     now |-> now, ret |-> -1]
               ELSE [raised |-> "none", msg |-> "",
                     revisions |-> Append(h.revisions,
                                          Revision(h.next_id, action, author,
                                                   index, orig, new, now)),
                     next_id |-> h.next_id + 1, now |-> now + 1,
                     ret |-> h.next_id]
    IN
    /\ RouteFrame
    /\ tracking_enabled' = h.tracking_enabled
    /\ out.raised = "none" => (Len(h.revisions) < MaxRevs /\ now < MaxClock)
    /\ cached' = TRUE
    /\ paragraphs' = h.paragraphs
    /\ bookmarks' = h.bookmarks
    /\ revisions' = out.revisions
    /\ next_id' = out.next_id
    /\ now' = out.now
    /\ issued' = IF out.raised = "none" THEN issued \cup {out.ret} ELSE issued
    /\ stored' = IF out.raised = "none" THEN save_request(h, h.paragraphs) ELSE stored
    /\ call' = Call("post_add_revision", index, None, out.raised, out.msg, out.ret)

\* POST /documents/{id}/revisions/{revision_id}/accept
post_accept_revision(revision_id, accepted_by) ==
    LET h == get_revision_handler
        out == accept_revision_fn(h.paragraphs, h.revisions, now,
                                  revision_id, accepted_by) IN
    /\ RouteFrame
    /\ tracking_enabled' = h.tracking_enabled
    /\ out.now <= MaxClock
    /\ cached' = TRUE
    /\ paragraphs' = out.paragraphs
    /\ bookmarks' = clear_bookmarks(h.bookmarks,
                        cleared_paragraphs(h.paragraphs, h.revisions, out.revisions))
    /\ revisions' = out.revisions
    /\ next_id' = h.next_id
    /\ now' = out.now
    /\ issued' = issued
    /\ stored' = IF out.raised = "none" THEN save_request(h, out.paragraphs) ELSE stored
    /\ call' = Call("post_accept_revision", revision_id, None,
                    out.raised, out.msg, -1)

\* POST /documents/{id}/revisions/{revision_id}/reject
post_reject_revision(revision_id, rejected_by) ==
    LET h == get_revision_handler
        out == reject_revision_fn(h.paragraphs, h.revisions, now,
                                  revision_id, rejected_by) IN
    /\ RouteFrame
    /\ tracking_enabled' = h.tracking_enabled
    /\ out.now <= MaxClock
    /\ cached' = TRUE
    /\ paragraphs' = out.paragraphs
    /\ bookmarks' = h.bookmarks
    /\ revisions' = out.revisions
    /\ next_id' = h.next_id
    /\ now' = out.now
    /\ issued' = issued
    /\ stored' = IF out.raised = "none" THEN save_request(h, out.paragraphs) ELSE stored
    /\ call' = Call("post_reject_revision", revision_id, None,
                    out.raised, out.msg, -1)

\* POST /documents/{id}/revisions/accept-all
post_accept_all_revisions(accepted_by) ==
    LET h == get_revision_handler
        out == accept_loop(PendingIds(h.revisions), h.paragraphs, h.revisions,
                           now, accepted_by, 0) IN
    /\ RouteFrame
    /\ tracking_enabled' = h.tracking_enabled
    /\ now + Len(PendingIds(h.revisions)) <= MaxClock
    /\ cached' = TRUE
    /\ paragraphs' = out.paragraphs
    /\ bookmarks' = clear_bookmarks(h.bookmarks,
                        cleared_paragraphs(h.paragraphs, h.revisions, out.revisions))
    /\ revisions' = out.revisions
    /\ next_id' = h.next_id
    /\ now' = out.now
    /\ issued' = issued
    /\ stored' = IF out.raised = "none" THEN save_request(h, out.paragraphs) ELSE stored
    /\ call' = Call("post_accept_all_revisions", -1, None, out.raised, "", out.ret)

\* POST /documents/{id}/revisions/reject-all
post_reject_all_revisions(rejected_by) ==
    LET h == get_revision_handler
        out == reject_loop(PendingIds(h.revisions), h.paragraphs, h.revisions,
                           now, rejected_by, 0) IN
    /\ RouteFrame
    /\ tracking_enabled' = h.tracking_enabled
    /\ now + Len(PendingIds(h.revisions)) <= MaxClock
    /\ cached' = TRUE
    /\ paragraphs' = out.paragraphs
    /\ bookmarks' = h.bookmarks
    /\ revisions' = out.revisions
    /\ next_id' = h.next_id
    /\ now' = out.now
    /\ issued' = issued
    /\ stored' = IF out.raised = "none" THEN save_request(h, out.paragraphs) ELSE stored
    /\ call' = Call("post_reject_all_revisions", -1, None, out.raised, "", out.ret)

\* the routes that only call the handler and never save: GET /revisions,
\* GET /revisions/stats, GET /revisions/pending, GET /revisions/{revision_id},
\* POST /revisions/tracking/enable, POST /revisions/tracking/disable and
\* GET /revisions/tracking/status
handler_route(route, revision_id) ==
    LET h == get_revision_handler
        revs == h.revisions
        found == get_revision(revs, revision_id)
        missing == route = "get_revision" /\ found = 0
        get_revision_count ==
            [total |-> Len(revs),
             pending |-> Len(PendingFrom(revs, 1)),
             accepted |-> Cardinality({k \in 1..Len(revs) : revs[k].is_accepted}),
             rejected |-> Cardinality({k \in 1..Len(revs) : revs[k].is_rejected})]
    IN
    /\ RouteFrame
    /\ cached' = TRUE
    /\ paragraphs' = h.paragraphs
    /\ bookmarks' = h.bookmarks
    /\ revisions' = revs
    /\ next_id' = h.next_id
    /\ tracking_enabled' = CASE route = "enable_tracking" -> TRUE
                             [] route = "disable_tracking" -> FALSE
                             [] OTHER -> h.tracking_enabled
    /\ UNCHANGED <<now, issued, stored>>
    /\ call' = Call(route, IF route = "get_revision" THEN revision_id ELSE -1,
                    None,
                    IF missing THEN "ValidationError" ELSE "none",
                    IF missing THEN "Revision not found" ELSE "",
                    CASE route = "get_revisions" -> Len(revs)
                      [] route = "get_revision_stats" -> get_revision_count
                      [] route = "get_pending" -> Len(PendingFrom(revs, 1))
                      [] route = "get_revision" ->
                             IF missing THEN -1 ELSE revs[found]
                      [] route = "enable_tracking" -> TRUE
                      [] route = "disable_tracking" -> FALSE
                      [] route = "get_tracking_status" -> h.tracking_enabled)

-----------------------------------------------------------------------------
(* The parts of the document outside the paragraph, revision and comment   *)
(* handlers, as they are after construction                                *)

-----------------------------------------------------------------------------
(* The engine: one document with one RevisionHandler and one TextHandler   *)

Doc0 == << <<Run(<<"a">>)>>, <<Run(<<"b">>)>> >>

NoCall == Call("init", -1, None, "none", "", -1)

\* the parts the handlers of this section do not touch: no bookmark, the
\* styles and tables of the template, the file as it was uploaded and no
\* cached handler
PartsInit ==
    LET \* the styles of the template a document starts with
        Styles0 ==
            <<[name |-> "Normal", base_style |-> None, font_size |-> None,
               builtin |-> TRUE],
              [name |-> "Heading 1", base_style |-> Some("Normal"),
               font_size |-> Some(14), builtin |-> TRUE]>>
        \* the template document has no table
        Tables0 == <<>>
    IN
    /\ bookmarks = [k \in 1..Len(paragraphs) |-> <<>>]
    /\ styles = Styles0
    /\ tables = Tables0
    /\ stored = Stored(Doc0)
    /\ cached = FALSE
    /\ tracking_enabled = FALSE

Init ==
    /\ paragraphs = Doc0
    /\ revisions = <<>>
    /\ next_id = 0
    /\ now = 0
    /\ comments = <<>>
    /\ comment_next_id = 0
    /\ issued = {}
    /\ call = NoCall
    /\ before = paragraphs
    /\ prior = [call |-> NoCall, paragraphs |-> paragraphs]
    /\ returned = <<>>
    /\ substituted = <<>>
    /\ PartsInit

\* the calls of this specification are no queries and leave the history of
\* the store specification alone
NoHistory == UNCHANGED <<before, prior, returned, substituted>>

Next ==
    \/ \E index \in -1..Len(paragraphs) : delete_paragraph(index) /\ NoHistory
    \/ \E input \in RevisionInputs, author \in {"ann"},
          index \in 0..(Len(paragraphs) - 1) :
           /\ Len(revisions) < MaxRevs
           /\ add_revision(input[1], author, index, None, input[2])
           /\ NoHistory
    \/ \E index \in {-1, Len(paragraphs)} :
           add_revision("insert", "ann", index, None, None) /\ NoHistory
    \/ \E id \in 0..MaxRevs : accept_revision(id, Some("bob")) /\ NoHistory
    \/ \E id \in 0..MaxRevs : reject_revision(id, Some("bob")) /\ NoHistory
    \/ accept_all_revisions(Some("bob")) /\ NoHistory
    \/ reject_all_revisions(Some("bob")) /\ NoHistory
    \/ clear_revision_history /\ NoHistory

Spec == Init /\ [][Next]_vars

\* reject_revision on a list of two revisions: the revisions are added at both
\* paragraphs, accepted and rejected by id, and the anchored paragraph may be
\* deleted in between
NextReject ==
    \/ \E action \in {"insert", "delete", "replace"},
          index \in 0..(Len(paragraphs) - 1) :
           /\ Len(revisions) <= MaxRevs
           /\ add_revision(action, "ann", index, None, Some(<<"x">>))
           /\ NoHistory
    \/ \E id \in 0..(MaxRevs + 1) : accept_revision(id, Some("bob")) /\ NoHistory
    \/ \E id \in 0..(MaxRevs + 1) : reject_revision(id, Some("bob")) /\ NoHistory
    \/ delete_paragraph(0) /\ NoHistory

SpecReject == Init /\ [][NextReject]_vars

-----------------------------------------------------------------------------
(* The paragraph store alone: a TextHandler on a document *)

InitStore ==
    LET StoreDocs ==
            LET StoreParas == {<<>>, <<Run(<<"a">>)>>, <<Run(<<"b">>), Run(<<"c">>)>>}
            IN
            {<<>>} \cup {<<p>> : p \in StoreParas}
                   \cup {<<p, q>> : p \in StoreParas, q \in StoreParas}
    IN
    /\ paragraphs \in StoreDocs
    /\ revisions = <<>>
    /\ next_id = 0
    /\ now = 0
    /\ comments = <<>>
    /\ comment_next_id = 0
    /\ issued = {}
    /\ call = NoCall
    /\ before = paragraphs
    /\ prior = [call |-> NoCall, paragraphs |-> paragraphs]
    /\ returned = <<>>
    /\ substituted = <<>>
    /\ PartsInit

NextStore ==
    LET \* the texts a caller passes: new ones, and the text of a paragraph it has
        \* read before the last call
        CallerTexts == {<<"p">>} \cup {ParaText(before[k]) : k \in 1..Len(before)}
        Remember ==
            /\ before' = paragraphs
            /\ prior' = [call |-> call, paragraphs |-> before]
            /\ UNCHANGED <<returned, substituted>>
    IN
    \/ add_paragraph(<<"p">>) /\ Remember
    \/ \E index \in -1..(Len(paragraphs) + 1), t \in CallerTexts :
           insert_paragraph(index, t) /\ Remember
    \/ \E index \in -1..Len(paragraphs) : delete_paragraph(index) /\ Remember

SpecStore == InitStore /\ [][NextStore]_vars

-----------------------------------------------------------------------------
(* Search and replace: a TextHandler on a document of runs                 *)

CatText ==
    <<"c", "a", "t", " ", "c", "a", "t", "e", "g", "o", "r", "y", " ",
      "c", "a", "t">>

\* the (find, replace) pairs replace_text is called with
ReplacePairs ==
    {<< <<"f", "o", "o", "b", "a", "r">>, <<"X">> >>,
     << <<"a">>, <<"b">> >>,
     << <<"b">>, <<"a">> >>,
     << <<"a">>, <<"x", "x">> >>,
     << <<"x", "x">>, <<"a">> >>}

InitSearch ==
    LET \* the documents searched: one paragraph, or a paragraph of two runs before
        \* another one
        SearchDocs ==
            LET SearchParas ==
                    {<<Run(CatText)>>,
                     <<Run(<<"f", "o", "o">>), Run(<<"b", "a", "r">>)>>,
                     <<Run(<<"a", "a">>), Run(<<"a">>)>>,
                     <<Run(<<"a", " ", "A", "-", "a">>)>>,
                     <<Run(<<"x", "a">>)>>,
                     <<Run(<<"B", "a">>)>>,
                     <<>>}
            IN
            {<<p>> : p \in SearchParas}
                \cup {<< <<Run(<<"f", "o", "o">>), Run(<<"b", "a", "r">>)>>,
                         <<Run(<<"a", "a">>), Run(<<"a">>)>> >>}
    IN
    /\ paragraphs \in SearchDocs
    /\ revisions = <<>>
    /\ next_id = 0
    /\ comments = <<>>
    /\ comment_next_id = 0
    /\ now = 0
    /\ issued = {}
    /\ call = NoCall
    /\ before = paragraphs
    /\ prior = [call |-> NoCall, paragraphs |-> paragraphs]
    /\ returned = <<>>
    /\ substituted = <<>>
    /\ PartsInit

NextSearch ==
    LET \* the texts find_text is called with
        SearchTexts ==
            {<<"c", "a", "t">>, <<"a">>, <<"a", "a">>, <<"A">>, <<"-">>, <<>>}
    IN
    \/ \E search_text \in SearchTexts, case_sensitive \in BOOLEAN,
          whole_word \in BOOLEAN :
           /\ find_text(search_text, case_sensitive, whole_word)
           /\ substituted' = <<>>
           /\ UNCHANGED <<before, prior>>
    \/ \E pair \in ReplacePairs, case_sensitive \in BOOLEAN,
          whole_word \in BOOLEAN :
           /\ replace_text(pair[1], pair[2], case_sensitive, whole_word)
           /\ returned' = <<>>
           /\ UNCHANGED <<before, prior>>

SpecSearch == InitSearch /\ [][NextSearch]_vars

\* replace_text alone, with the last two calls remembered
NextReplace ==
    \E pair \in ReplacePairs, case_sensitive \in BOOLEAN, whole_word \in {FALSE} :
        /\ replace_text(pair[1], pair[2], case_sensitive, whole_word)
        /\ before' = paragraphs
        /\ prior' = [call |-> call, paragraphs |-> before]
        /\ returned' = returned

SpecReplace == InitSearch /\ [][NextReplace]_vars

-----------------------------------------------------------------------------
(* The overlays on a changing document: a TextHandler, a RevisionHandler   *)
(* and a CommentHandler on one document                                    *)

NextAnchor ==
    \/ \E index \in 0..Len(paragraphs), t \in {<<"p">>} :
           insert_paragraph(index, t) /\ NoHistory
    \/ \E index \in 0..(Len(paragraphs) - 1) :
           delete_paragraph(index) /\ NoHistory
    \/ \E index \in {Len(paragraphs) - 1} \ {-1} :
           /\ Len(revisions) < MaxRevs
           /\ add_revision("insert", "ann", index, None, Some(<<"x">>))
           /\ NoHistory
    \/ \E index \in {Len(paragraphs) - 1} \ {-1}, t \in {<<"c">>} :
           add_comment(t, "ann", index, None, None) /\ NoHistory
    \/ \E id \in {0} : resolve_comment(id) /\ NoHistory

SpecAnchor == Init /\ [][NextAnchor]_vars

-----------------------------------------------------------------------------
(* The comment overlay: a CommentHandler and a TextHandler on one document *)

NextComments ==
    LET CommentAuthors == {"ann", "bob"}
        \* the (author, paragraph_index) pairs add_comment is called with: two on
        \* paragraphs of the first document, one past its end
        CommentInputs == {<<"ann", 0>>, <<"bob", 1>>, <<"ann", 2>>}
        \* the (text, status) pairs update_comment is called with
        UpdateInputs == {<<Some(<<"c">>), None>>, <<None, Some("deleted")>>}
        \* the ids get_comment is called with: every id issued, to a comment or to a
        \* reply, and the next one
        IssuedIds == 0..comment_next_id
        \* the ids the comment calls are made with: those of the comments and one
        \* that was never issued
        CommentIds == {comments[k].id : k \in 1..Len(comments)} \cup {comment_next_id}
        \* a call that is no query returns nothing to remember
        NoResult ==
            /\ returned' = <<>>
            /\ UNCHANGED <<before, prior, substituted>>
        \* a query leaves the other histories alone
        QueryOnly == UNCHANGED <<before, prior, substituted>>
    IN
    \/ \E input \in CommentInputs, t \in {<<"c">>} :
           add_comment(t, input[1], input[2], None, None) /\ NoResult
    \/ \E id \in CommentIds, input \in UpdateInputs :
           update_comment(id, input[1], input[2]) /\ NoResult
    \/ \E id \in CommentIds : resolve_comment(id) /\ NoResult
    \/ \E id \in CommentIds : reopen_comment(id) /\ NoResult
    \/ \E id \in CommentIds : delete_comment(id) /\ NoResult
    \/ \E id \in CommentIds : add_reply(id, <<"r">>, "bob") /\ NoResult
    \/ clear_all_comments /\ NoResult
    \/ \E index \in {0} : delete_paragraph(index) /\ NoResult
    \/ \E id \in IssuedIds : get_comment(id) /\ QueryOnly
    \/ \E index \in -1..2 : get_paragraph_comments(index) /\ QueryOnly
    \/ get_open_comments /\ QueryOnly
    \/ \E author \in CommentAuthors : get_comments_by_author(author) /\ QueryOnly
    \/ get_comment_count /\ QueryOnly

SpecComments == Init /\ [][NextComments]_vars

-----------------------------------------------------------------------------
(* The operations that address a paragraph by index, on one document with   *)
(* its TextHandler, CommentHandler and RevisionHandler                      *)

MaxRuns == 2      \* most runs add_run lets a paragraph grow to
MaxChars == 1     \* longest paragraph text insert_text is called on

NextIndex ==
    LET \* the paragraph indices of the calls: the one before the first paragraph,
        \* the last paragraph and the one after it
        IndexInputs == {-1, Len(paragraphs) - 1, Len(paragraphs)}
    IN
    \/ \E index \in IndexInputs : get_paragraph(index) /\ NoHistory
    \/ \E index \in IndexInputs, text \in {None, Some(<<"p">>)} :
           update_paragraph(index, text) /\ NoHistory
    \/ \E index \in IndexInputs : delete_paragraph(index) /\ NoHistory
    \/ \E index \in IndexInputs :
           /\ validate_paragraph_index(paragraphs, index)
                  => Len(paragraphs[index + 1]) < MaxRuns
           /\ text_add_run(index, <<"r">>, Some(12))
           /\ NoHistory
    \/ \E index \in IndexInputs, run_index \in {-1, 0, MaxRuns} :
           format_run(index, run_index, Some(12)) /\ NoHistory
    \/ \E index \in IndexInputs, offset \in -1..(MaxChars + 1) :
           /\ validate_paragraph_index(paragraphs, index)
                  => Len(ParaText(paragraphs[index + 1])) <= MaxChars
           /\ insert_text(index, offset, <<"x">>, None)
           /\ NoHistory
    \/ \E index \in IndexInputs :
           add_comment(<<"c">>, "ann", index, None, None) /\ NoHistory
    \/ \E index \in IndexInputs :
           /\ validate_paragraph_index(paragraphs, index)
                  => Len(revisions) < MaxRevs
           /\ add_revision("insert", "ann", index, None, Some(<<"x">>))
           /\ NoHistory

SpecIndex == Init /\ [][NextIndex]_vars

-----------------------------------------------------------------------------
(* The styles of one document with its StyleHandler, and the font size of   *)
(* the runs of its first paragraph                                          *)

MaxStyles == 4    \* most styles the document grows to

NextStyles ==
    LET \* the names create_style is called with: two custom names, the name of a
        \* built-in style and the empty name
        StyleNames == {"A", "B", "Normal", ""}
        \* the base styles create_style is called with: none, a built-in style, a
        \* custom name and a name no style ever has
        BaseStyles == {None, Some("Normal"), Some("A"), Some("Missing")}
        \* the names the other style calls address: a custom style, a built-in one
        \* and a name no style ever has
        StyleTargets == {"A", "Normal", "Missing"}
        \* the font sizes of the calls: none, below the range of the schemas, within
        \* it and above it
        FontSizes == {None, Some(5), Some(12), Some(200)}
    IN
    \/ \E name \in StyleNames, base \in BaseStyles, size \in FontSizes :
           /\ Len(styles) < MaxStyles
           /\ create_style(name, base, size)
           /\ NoHistory
    \/ \E size \in FontSizes : update_style("A", size) /\ NoHistory
    \/ update_style("Missing", Some(12)) /\ NoHistory
    \/ \E name \in StyleTargets : delete_style(name) /\ NoHistory
    \/ \E source \in StyleTargets :
           /\ Len(styles) < MaxStyles
           /\ copy_style(source, "B")
           /\ NoHistory
    \/ \E name \in StyleTargets : get_style(name) /\ NoHistory
    \/ \E run_index \in {0, 1}, size \in FontSizes :
           format_run(0, run_index, size) /\ NoHistory
    \/ \E size \in FontSizes :
           /\ Len(paragraphs[1]) < MaxRuns
           /\ text_add_run(0, <<"r">>, size)
           /\ NoHistory

SpecStyles == Init /\ [][NextStyles]_vars

-----------------------------------------------------------------------------
(* The tables of one document with its TableHandler *)

MaxTables == 2    \* most tables the document grows to
MaxRows == 2      \* most rows and columns of a table that is added

NextTables ==
    LET \* the first and the last of MaxRows rows and columns
        Corners == {0, MaxRows - 1}
        \* the ranges merge_cells is called with: from one corner to another,
        \* also backwards, and one range for each index that is out of range
        MergeInputs ==
            {range \in Corners \X Corners \X Corners \X Corners :
                 <<range[1], range[2]>> # <<range[3], range[4]>>}
                \cup {<<-1, 0, 0, 0>>, <<0, MaxRows, 0, 0>>,
                      <<0, 0, MaxRows, 0>>, <<0, 0, 0, -1>>}
    IN
    \* the first table of the document is added, further ones are inserted
    \* behind the first paragraph, in front of the tables there are, and the
    \* calls on a table are made on the last table
    \/ \E rows \in {0, MaxRows}, cols \in {0, MaxRows} :
           /\ tables = <<>>
           /\ add_table(rows, cols)
           /\ NoHistory
    \/ \E input \in {<<0, 1>>, <<0, 0>>, <<Len(paragraphs), 1>>} :
           /\ Len(tables) < MaxTables
           /\ insert_table_after_paragraph(input[1], input[2], 1)
           /\ NoHistory
    \/ \E index \in {0, Len(tables)} : delete_table(index) /\ NoHistory
    \/ \E table_index \in {Len(tables) - 1, Len(tables)} :
           /\ validate_table_index(tables, table_index)
                  => Len(tables[table_index + 1].trs) < MaxRows
           /\ add_row(table_index)
           /\ NoHistory
    \/ \E table_index \in {Len(tables) - 1, Len(tables)} :
           /\ validate_table_index(tables, table_index)
                  => tables[table_index + 1].cols < MaxRows
           /\ add_column(table_index)
           /\ NoHistory
    \/ \E row_index \in {0, MaxRows} :
           delete_row(Len(tables) - 1, row_index) /\ NoHistory
    \/ \E col_index \in {0, MaxRows} :
           delete_column(Len(tables) - 1, col_index) /\ NoHistory
    \/ \E at \in {<<0, 0>>, <<1, 1>>, <<0, MaxRows>>} :
           set_cell(Len(tables) - 1, at[1], at[2], <<"a">>) /\ NoHistory
    \/ \E at \in {<<0, 0>>, <<MaxRows, 0>>} :
           get_cell(Len(tables) - 1, at[1], at[2]) /\ NoHistory
    \/ \E range \in MergeInputs :
           merge_cells(Len(tables) - 1, range[1], range[2], range[3], range[4])
               /\ NoHistory
    \/ merge_cells(Len(tables), 0, 0, 0, 0) /\ NoHistory

SpecTables == Init /\ [][NextTables]_vars

-----------------------------------------------------------------------------
(* The bookmarks of one document with its TocHandler and TextHandler *)

MaxBookmarks == 2   \* most bookmarks the document holds at once
MaxLinks == 1       \* most hyperlinks the document holds at once

\* add_table_of_contents(title): the title paragraph is appended and given
\* the style Heading 1, then a second paragraph whose only run holds the
\* field characters of the TOC field and no text. Heading 1 is a built-in
\* style of the template, which delete_style refuses to remove, so the style
\* assignment finds it
add_table_of_contents(title) ==
    /\ Len(paragraphs) + 2 <= MaxParas
    /\ paragraphs' = Append(add_paragraph_fn(paragraphs, title),
                            add_run(<<>>, <<>>))
    /\ bookmarks' = bookmarks \o <<(<<>>), (<<>>)>>
    /\ call' = Call("add_table_of_contents", -1, Some(title), "none", "",
                    Len(paragraphs') - 1)
    /\ RevUnchanged
    /\ CommentsUnchanged
    /\ PartsUnchanged

\* add_heading(text, level): a level outside 1..9 is refused, otherwise
\* Document.add_heading appends a paragraph of style 'Heading <level>'
add_heading(t, level) ==
    /\ RevUnchanged
    /\ CommentsUnchanged
    /\ PartsUnchanged
    /\ IF level < 1 \/ level > 9
       THEN /\ paragraphs' = paragraphs
            /\ bookmarks' = bookmarks
            /\ call' = Call("add_heading", level, Some(t), "ValidationError",
                            "Heading level must be between 1 and 9", -1)
       ELSE /\ Len(paragraphs) < MaxParas
            /\ paragraphs' = add_paragraph_fn(paragraphs, t)
            /\ bookmarks' = Append(bookmarks, <<>>)
            /\ call' = Call("add_heading", level, Some(t), "none", "",
                            Len(paragraphs') - 1)

NextBookmarks ==
    LET BookmarkNames == {"x", "y"}
        \* the number of bookmark elements of the document
        RECURSIVE ElementCount(_)
        ElementCount(marks) ==
            IF marks = <<>> THEN 0
            ELSE Len(marks[1]) + ElementCount(Tail(marks))
        \* the number of hyperlinks of the document
        LinkCount == ElementCount([k \in 1..Len(paragraphs) |->
                         SelectSeq(paragraphs[k],
                                   LAMBDA elem : "anchor" \in DOMAIN elem)])
    IN
    \/ \E name \in BookmarkNames, index \in -1..Len(paragraphs) :
           /\ ElementCount(bookmarks) < 2 * MaxBookmarks
           /\ LinkCount = 0
           /\ \A k \in 1..Len(paragraphs) : Len(ParaText(paragraphs[k])) <= MaxChars
           /\ add_bookmark(name, index)
           /\ NoHistory
    \/ \E name \in BookmarkNames : delete_bookmark(name) /\ NoHistory
    \/ get_bookmarks /\ NoHistory
    \/ delete_paragraph(0) /\ NoHistory
    \/ update_paragraph(0, Some(<<"p">>)) /\ NoHistory
    \/ add_table_of_contents(<<"t">>) /\ NoHistory
    \/ \E level \in {0, 1} : add_heading(<<"p">>, level) /\ NoHistory
    \/ \E input \in {<<(<<"L">>), 0>>, <<(<<"&">>), 0>>, <<(<<"L">>), -1>>} :
           /\ LinkCount < MaxLinks
           /\ ElementCount(bookmarks) = 0
           /\ add_hyperlink(input[1], "u", input[2])
           /\ NoHistory
    \/ \E input \in {<<(<<"L">>), 0>>, <<(<<"<">>), 0>>,
                     <<(<<"L">>), Len(paragraphs)>>} :
           /\ LinkCount < MaxLinks
           /\ ElementCount(bookmarks) = 0
           /\ add_internal_link(input[1], "x", input[2])
           /\ NoHistory
    \/ get_hyperlinks /\ NoHistory
    \/ update_toc /\ NoHistory
    \/ get_paragraph(0) /\ NoHistory
    \/ \E offset \in {2, 3} :
           /\ LinkCount > 0
           /\ Len(paragraphs) > 0
                  => Len(ParaText(paragraphs[1])) <= MaxChars + MaxLinks
           /\ insert_text(0, offset, <<"x">>, None)
           /\ NoHistory

SpecBookmarks == Init /\ [][NextBookmarks]_vars

-----------------------------------------------------------------------------
(* The batch route on the file of one document *)

MaxOps == 3       \* most operations of a batch

\* the batches of up to MaxOps operations, no operation twice in a batch
Batches ==
    LET \* the params of a batch operation: a key that is absent is None
        NoParams ==
            [index |-> None, text |-> None, find |-> None, replace |-> None,
             case_sensitive |-> None, metadata |-> [f \in MetaFields |-> None]]
        BatchOperation(operation, params) == [operation |-> operation, params |-> params]
        \* the operations the batches are made of: one that always succeeds, one
        \* that fails on a document of one paragraph, a metadata update and an
        \* unknown operation
        BatchOps ==
            {BatchOperation("add_paragraph", [NoParams EXCEPT !.text = Some(<<"p">>)]),
             BatchOperation("delete_paragraph", [NoParams EXCEPT !.index = Some(1)]),
             BatchOperation("set_metadata",
                            [NoParams EXCEPT !.metadata["title"] = Some("t")]),
             BatchOperation("frobnicate", NoParams)}
    IN
    {operations \in UNION {[1..n -> BatchOps] : n \in 0..MaxOps} :
        \A i, j \in 1..Len(operations) : i # j => operations[i] # operations[j]}

NextBatch ==
    \/ \E operations \in Batches, stop_on_error \in BOOLEAN :
           /\ execute_batch(operations, stop_on_error)
           /\ Len(stored'.paragraphs) <= MaxParas
           /\ NoHistory

SpecBatch == Init /\ [][NextBatch]_vars

-----------------------------------------------------------------------------
(* The revision routes on one document id *)

NextRoutes ==
    LET \* the paragraph_index of the add request: absent, the first paragraph, the
        \* second, and one past the document
        RouteIndices == {None, Some(0), Some(1), Some(2)}
    IN
    \/ \E input \in RevisionInputs, author \in {"ann"}, index \in RouteIndices :
           post_add_revision(input[1], author, index, None, input[2]) /\ NoHistory
    \/ \E id \in 0..MaxRevs : post_accept_revision(id, Some("bob")) /\ NoHistory
    \/ \E id \in 0..MaxRevs : post_reject_revision(id, Some("bob")) /\ NoHistory
    \/ post_accept_all_revisions(Some("bob")) /\ NoHistory
    \/ post_reject_all_revisions(Some("bob")) /\ NoHistory
    \/ \E route \in {"get_revisions", "get_revision_stats", "get_pending",
                     "get_tracking_status", "enable_tracking",
                     "disable_tracking"} :
           handler_route(route, -1) /\ NoHistory
    \/ \E id \in 0..MaxRevs : handler_route("get_revision", id) /\ NoHistory

SpecRoutes == Init /\ [][NextRoutes]_vars

-----------------------------------------------------------------------------
(* Properties of the revision engine, checked under Spec (C8: SpecReject) *)

Pending(r) == ~r.is_accepted /\ ~r.is_rejected
Processed(r) == r.is_accepted \/ r.is_rejected

\* the positions of the revisions a call on revision id addresses
Addressed(id) == {k \in 1..Len(revisions) : revisions[k].id = id}

AlreadyProcessedMsg == "Revision has already been processed"

\* C1: a revision that has left pending is terminal: accept_revision or
\* reject_revision on it raises the 'already processed' ValidationError and
\* changes neither the revisions (status, accepted_at, accepted_by) nor the
\* document, whatever call processed it and whatever call comes second.
RevisionTerminal ==
    [][\A k \in Addressed(call'.idx) :
          (/\ call'.op \in {"accept_revision", "reject_revision"}
           /\ Processed(revisions[k]))
          => /\ call'.raised = "ValidationError"
             /\ call'.msg = AlreadyProcessedMsg
             /\ revisions' = revisions
             /\ paragraphs' = paragraphs]_vars

\* C1 witness: accept_revision was called on a rejected revision and failed
RevisionTerminalWitness ==
    /\ call.op = "accept_revision"
    /\ call.raised = "ValidationError"
    /\ call.msg = AlreadyProcessedMsg
    /\ \E k \in Addressed(call.idx) : revisions[k].is_rejected

\* C2: accept_revision validates before it mutates: called on a pending
\* revision whose paragraph_index is no index of the document, it fails and
\* the revision is still pending, accepted_at and accepted_by are unset and
\* the document is unchanged.
AcceptValidatesBeforeMutating ==
    [][\A k \in Addressed(call'.idx) :
          (/\ call'.op = "accept_revision"
           /\ Pending(revisions[k])
           /\ revisions[k].paragraph_index >= Len(paragraphs))
          => /\ call'.raised # "none"
             /\ Pending(revisions'[k])
             /\ revisions'[k].accepted_at = None
             /\ revisions'[k].accepted_by = None
             /\ paragraphs' = paragraphs]_vars

\* C3: accept_all_revisions and reject_all_revisions never raise: every
\* revision pending at the call is processed or skipped unchanged, and
\* the number of those processed is returned.
BatchNeverAborts ==
    [][call'.op \in {"accept_all_revisions", "reject_all_revisions"}
       => /\ call'.raised = "none"
          /\ Len(revisions') = Len(revisions)
          /\ \A k \in 1..Len(revisions) :
                \/ revisions'[k] = revisions[k]
                \/ Pending(revisions[k]) /\ Processed(revisions'[k])
          /\ call'.ret = Cardinality({k \in 1..Len(revisions) :
                             Pending(revisions[k]) /\ Processed(revisions'[k])})]_vars

\* the case of C4: accept_revision on the pending revision at position k,
\* anchored at an existing paragraph
AcceptsPendingAt(k) ==
    /\ call'.op = "accept_revision"
    /\ k \in Addressed(call'.idx)
    /\ Pending(revisions[k])
    /\ revisions[k].paragraph_index >= 0
    /\ revisions[k].paragraph_index < Len(paragraphs)

\* C4: accepting a pending revision anchored at an existing paragraph p with a
\* non-empty new_content applies exactly its action: insert appends one run
\* holding new_content, delete leaves p without runs, replace leaves p with
\* the single run new_content, format and move change nothing; the other
\* paragraphs and the paragraph count are unchanged.
AcceptAppliesAction ==
    [][\A k \in 1..Len(revisions) :
          (AcceptsPendingAt(k) /\ Truthy(revisions[k].new_content))
          => LET r == revisions[k]
                 p == r.paragraph_index + 1
                 new == r.new_content[1]
             IN  /\ call'.raised = "none"
                 /\ Len(paragraphs') = Len(paragraphs)
                 /\ \A j \in 1..Len(paragraphs) :
                       j # p => paragraphs'[j] = paragraphs[j]
                 /\ r.action = "insert" =>
                       /\ ParaText(paragraphs'[p]) = ParaText(paragraphs[p]) \o new
                       /\ Len(paragraphs'[p]) = Len(paragraphs[p]) + 1
                       /\ SubSeq(paragraphs'[p], 1, Len(paragraphs[p])) = paragraphs[p]
                 /\ r.action = "delete" =>
                       /\ ParaText(paragraphs'[p]) = <<>>
                       /\ Len(paragraphs'[p]) = 0
                 /\ r.action = "replace" =>
                       /\ Len(paragraphs'[p]) = 1
                       /\ paragraphs'[p][1].text = new
                       /\ ParaText(paragraphs'[p]) = new
                 /\ r.action \in {"format", "move"} =>
                       paragraphs' = paragraphs]_vars

\* C4 witness: a replace revision with content "x" was accepted on a
\* paragraph of the document, which now reads "x"
AcceptAppliesActionWitness ==
    /\ call.op = "accept_revision"
    /\ call.raised = "none"
    /\ \E k \in Addressed(call.idx) :
          /\ revisions[k].is_accepted
          /\ revisions[k].action = "replace"
          /\ revisions[k].new_content = Some(<<"x">>)
          /\ revisions[k].paragraph_index < Len(paragraphs)
          /\ ParaText(paragraphs[revisions[k].paragraph_index + 1]) = <<"x">>
          /\ Len(paragraphs) = 2

\* C5: accepting a pending replace revision whose new_content is None or the
\* empty string leaves the paragraph at paragraph_index with empty text.
ReplaceAlwaysClears ==
    [][\A k \in 1..Len(revisions) :
          (/\ AcceptsPendingAt(k)
           /\ revisions[k].action = "replace"
           /\ ~Truthy(revisions[k].new_content))
          => ParaText(paragraphs'[revisions[k].paragraph_index + 1]) = <<>>]_vars

\* C6: no revision is both accepted and rejected, and accepted_at is set
\* exactly when the revision is accepted or rejected.
RevisionStatusExclusive ==
    \A k \in 1..Len(revisions) :
        /\ ~(revisions[k].is_accepted /\ revisions[k].is_rejected)
        /\ (revisions[k].accepted_at # None) <=> Processed(revisions[k])

\* C6 witness: a rejected revision, not accepted, with its stamp
RevisionStatusExclusiveWitness ==
    \E k \in 1..Len(revisions) :
        /\ revisions[k].is_rejected
        /\ ~revisions[k].is_accepted
        /\ revisions[k].accepted_at # None

\* C7: every id add_revision returns is greater than every id it has
\* returned before on this handler, clear_revision_history calls included.
RevisionIdsMonotonic ==
    [][(call'.op = "add_revision" /\ call'.raised = "none")
       => \A i \in issued : call'.ret > i]_vars

\* C8: reject_revision never changes the document; when it fails it changes
\* no revision, and when it succeeds it changes only the status, accepted_at
\* and accepted_by of the revision it was called on, and no other revision
\* of the list. Checked under SpecReject, where the list holds two revisions.
RejectNeverTouchesStore ==
    [][call'.op = "reject_revision"
       => /\ paragraphs' = paragraphs
          /\ Len(revisions') = Len(revisions)
          /\ call'.raised # "none" => revisions' = revisions
          /\ \A k \in 1..Len(revisions) :
                IF call'.raised = "none" /\ revisions[k].id = call'.idx
                THEN /\ revisions'[k].is_rejected
                     /\ [revisions'[k] EXCEPT
                            !.is_rejected = revisions[k].is_rejected,
                            !.accepted_at = revisions[k].accepted_at,
                            !.accepted_by = revisions[k].accepted_by]
                        = revisions[k]
                ELSE revisions'[k] = revisions[k]]_vars

\* C8 witness: reject_revision succeeded on a replace revision with content
\* "x" anchored at a paragraph of the document, which does not read "x",
\* while the list holds a second revision with another id, still pending
RejectNeverTouchesStoreWitness ==
    /\ call.op = "reject_revision"
    /\ call.raised = "none"
    /\ \E k \in Addressed(call.idx) :
          /\ revisions[k].is_rejected
          /\ revisions[k].action = "replace"
          /\ revisions[k].new_content = Some(<<"x">>)
          /\ revisions[k].paragraph_index < Len(paragraphs)
          /\ ParaText(paragraphs[revisions[k].paragraph_index + 1]) # <<"x">>
    /\ \E j \in 1..Len(revisions) :
          revisions[j].id # call.idx /\ Pending(revisions[j])

-----------------------------------------------------------------------------
(* Properties of the paragraph store, checked under SpecStore *)

\* C9: insert_paragraph(i, t) on a document of n paragraphs with 0 <= i <= n
\* returns i, makes the count n + 1 and the text of paragraph i the text t,
\* leaves the paragraphs before i as they were and moves each paragraph at
\* j >= i unchanged to j + 1; with i outside [0, n] it raises
\* ValidationError and leaves the document unchanged.
InsertShiftsParagraphs ==
    [][call'.op = "insert_paragraph"
       => LET i == call'.idx
              n == Len(paragraphs)
              t == call'.text[1]
          IN  IF i >= 0 /\ i <= n
              THEN /\ call'.raised = "none"
                   /\ call'.ret = i
                   /\ Len(paragraphs') = n + 1
                   /\ ParaText(paragraphs'[i + 1]) = t
                   /\ \A j \in 0..(i - 1) : paragraphs'[j + 1] = paragraphs[j + 1]
                   /\ \A j \in i..(n - 1) : paragraphs'[j + 2] = paragraphs[j + 1]
              ELSE /\ call'.raised = "ValidationError"
                   /\ paragraphs' = paragraphs]_vars

\* C9 witness: a paragraph was inserted before two others, which differ
InsertShiftsParagraphsWitness ==
    /\ call.op = "insert_paragraph"
    /\ call.raised = "none"
    /\ call.idx = 0
    /\ Len(paragraphs) = 3
    /\ ParaText(paragraphs[2]) # ParaText(paragraphs[3])
    /\ ParaText(paragraphs[1]) # ParaText(paragraphs[2])

\* the last two calls were delete_paragraph(i) and insert_paragraph(i, text
\* of the paragraph deleted)
DeletedAndReinserted ==
    /\ prior.call.op = "delete_paragraph"
    /\ prior.call.raised = "none"
    /\ call.op = "insert_paragraph"
    /\ call.idx = prior.call.idx
    /\ call.text = Some(ParaText(prior.paragraphs[prior.call.idx + 1]))

\* C10: delete_paragraph(i) on a valid index followed by insert_paragraph(i,
\* text of the paragraph deleted) succeeds and restores the paragraph count
\* and the text of every paragraph at its index.
DeleteInsertInverse ==
    DeletedAndReinserted
    => /\ call.raised = "none"
       /\ Len(paragraphs) = Len(prior.paragraphs)
       /\ Texts(paragraphs) = Texts(prior.paragraphs)

\* C10 witness: the last paragraph of three, one of two runs, was deleted and
\* inserted again
DeleteInsertInverseWitness ==
    /\ DeletedAndReinserted
    /\ Len(prior.paragraphs) = 3
    /\ prior.call.idx = 2
    /\ Len(prior.paragraphs[3]) = 2
    /\ ParaText(prior.paragraphs[1]) # ParaText(prior.paragraphs[3])

-----------------------------------------------------------------------------
(* Properties of the overlays on a changing document, checked under        *)
(* SpecAnchor                                                              *)

\* C11: no automatic re-anchoring: insert_paragraph and delete_paragraph
\* leave every revision and every comment as it was (none added, none
\* removed, no status and no paragraph_index changed); a revision or comment
\* is created with the paragraph_index given and no later call changes it.
NoReanchoring ==
    [][/\ call'.op \in {"insert_paragraph", "delete_paragraph"}
          => revisions' = revisions /\ comments' = comments
       /\ \A k \in 1..Len(comments) :
             /\ k <= Len(comments')
             /\ comments'[k].id = comments[k].id
             /\ comments'[k].paragraph_index = comments[k].paragraph_index
       /\ \A k \in 1..Len(revisions) :
             /\ k <= Len(revisions')
             /\ revisions'[k].id = revisions[k].id
             /\ revisions'[k].paragraph_index = revisions[k].paragraph_index
       /\ (call'.op = "add_comment" /\ call'.raised = "none")
          => comments'[Len(comments')].paragraph_index = call'.idx
       /\ (call'.op = "add_revision" /\ call'.raised = "none")
          => revisions'[Len(revisions')].paragraph_index = call'.idx]_vars

\* C11 witness: a paragraph was deleted before the paragraph a comment and a
\* revision are anchored at, whose index is now no index of the document
NoReanchoringWitness ==
    /\ call.op = "delete_paragraph"
    /\ call.raised = "none"
    /\ \E k \in 1..Len(comments) :
          /\ comments[k].paragraph_index > call.idx
          /\ comments[k].paragraph_index >= Len(paragraphs)
    /\ \E k \in 1..Len(revisions) :
          /\ revisions[k].paragraph_index > call.idx
          /\ revisions[k].paragraph_index >= Len(paragraphs)

-----------------------------------------------------------------------------
(* Properties of search and replace, checked under SpecSearch              *)

\* the run holds the search string, compared as the call compares
RunHolds(text, args) ==
    IF args.case_sensitive THEN contains(text, args.find)
    ELSE contains(lower(text), lower(args.find))

FooBar == <<Run(<<"f", "o", "o">>), Run(<<"b", "a", "r">>)>>

\* C12: replace_text works run by run: the paragraphs keep their runs, a run
\* that does not itself hold the search string is unchanged and counts
\* nothing, whatever the paragraph's text holds across run boundaries, and a
\* run's new text is the replacement made in its own previous text; a
\* paragraph with runs "foo" and "bar" is unchanged by
\* replace_text("foobar", "X"), which returns 0 on a document without
\* another run that holds "foobar".
ReplaceRunGranularity ==
    [][call'.op = "replace_text"
       => LET args == call'.text[1] IN
          /\ Len(paragraphs') = Len(paragraphs)
          /\ \A k \in 1..Len(paragraphs) :
                /\ Len(paragraphs'[k]) = Len(paragraphs[k])
                /\ \A j \in 1..Len(paragraphs[k]) :
                      /\ ~RunHolds(paragraphs[k][j].text, args)
                         => /\ paragraphs'[k][j] = paragraphs[k][j]
                            /\ substituted'[k][j] = 0
                      /\ paragraphs'[k][j].text =
                            run_replace(paragraphs[k][j].text, args.find,
                                        args.replace, args.case_sensitive,
                                        args.whole_word).text
                      /\ \A k2 \in 1..Len(paragraphs) :
                            \A j2 \in 1..Len(paragraphs[k2]) :
                               paragraphs[k2][j2] = paragraphs[k][j]
                               => paragraphs'[k2][j2] = paragraphs'[k][j]
          /\ (\A k \in 1..Len(paragraphs) : \A j \in 1..Len(paragraphs[k]) :
                 ~RunHolds(paragraphs[k][j].text, args))
             => call'.ret = 0 /\ paragraphs' = paragraphs
          /\ (args.find = <<"f", "o", "o", "b", "a", "r">>
              /\ args.replace = <<"X">>)
             => \A k \in 1..Len(paragraphs) :
                   paragraphs[k] = FooBar => paragraphs'[k] = FooBar]_vars

\* C12 witness: replace_text("foobar", "X") with the default flags returned
\* 0 on the paragraph of runs "foo" and "bar", whose text holds "foobar"
ReplaceRunGranularityWitness ==
    /\ call.op = "replace_text"
    /\ call.text[1] = ReplaceArgs(<<"f", "o", "o", "b", "a", "r">>, <<"X">>,
                                 FALSE, FALSE)
    /\ call.ret = 0
    /\ paragraphs = <<FooBar>>
    /\ contains(ParaText(paragraphs[1]), <<"f", "o", "o", "b", "a", "r">>)

\* the last call was find_text("cat", case_sensitive=True, whole_word=True)
\* on the one paragraph "cat category cat"
CatSearched ==
    /\ call.op = "find_text"
    /\ call.text[1] = FindArgs(<<"c", "a", "t">>, TRUE, TRUE)
    /\ Len(paragraphs) = 1
    /\ ParaText(paragraphs[1]) = CatText

\* the offsets of the matches returned
Offsets == [j \in 1..Len(returned) |-> returned[j].offset]

\* C14 as stated: the whole-word search for "cat" in "cat category cat"
\* returns the matches at offsets 0 and 14.
WholeWordCatAt14 == CatSearched => Offsets = <<0, 14>>

\* C14 amended: the whole-word search for "cat" in "cat category cat" returns
\* the matches at offsets 0 and 13 only, not the one at 4 inside "category".
WholeWordCat == CatSearched => Offsets = <<0, 13>>

\* C14 witness: the search was made and returned two matches of "cat"
WholeWordCatWitness ==
    /\ CatSearched
    /\ Len(returned) = 2
    /\ \A j \in 1..2 : returned[j].text = <<"c", "a", "t">>

\* the query of the call occurs at position p of paragraph i, compared as
\* the call compares, and as a whole word when the call asks for it
OccursAt(args, i, p) ==
    LET text == IF args.case_sensitive THEN ParaText(paragraphs[i + 1])
                ELSE lower(ParaText(paragraphs[i + 1]))
        query == IF args.case_sensitive THEN args.find ELSE lower(args.find)
        n == Len(query)
    IN  /\ p >= 0 /\ p + n <= Len(text)
        /\ \A j \in 1..n : text[p + j] = query[j]
        /\ args.whole_word
           => /\ p = 0 \/ ~isalnum(text[p])
              /\ p + n = Len(text) \/ ~isalnum(text[p + n + 1])

\* C15: find_text returns exactly one match for every position of every
\* paragraph at which the query occurs (ignoring case unless case_sensitive,
\* overlapping occurrences included, and with whole_word only between
\* non-alphanumeric characters or string boundaries), and nothing else; the
\* matches are ordered by paragraph index and then by offset, each has the
\* length of the query, lies within the paragraph text and carries the text
\* found there.
FindTextExact ==
    call.op = "find_text"
    => LET args == call.text[1] IN
       /\ \A i \in 0..(Len(paragraphs) - 1) :
             \A p \in 0..Len(ParaText(paragraphs[i + 1])) :
                OccursAt(args, i, p)
                => Cardinality({j \in 1..Len(returned) :
                                   /\ returned[j].paragraph_index = i
                                   /\ returned[j].offset = p}) = 1
       /\ \A j \in 1..Len(returned) :
             LET m == returned[j] IN
             /\ m.paragraph_index >= 0 /\ m.paragraph_index < Len(paragraphs)
             /\ OccursAt(args, m.paragraph_index, m.offset)
             /\ m.length = Len(args.find)
             /\ m.offset + m.length <= Len(ParaText(paragraphs[m.paragraph_index + 1]))
             /\ m.text = SubSeq(ParaText(paragraphs[m.paragraph_index + 1]),
                                m.offset + 1, m.offset + m.length)
       /\ \A j \in 1..(Len(returned) - 1) :
             \/ returned[j].paragraph_index < returned[j + 1].paragraph_index
             \/ /\ returned[j].paragraph_index = returned[j + 1].paragraph_index
                /\ returned[j].offset < returned[j + 1].offset

\* C15 witness: a search ignoring case returned overlapping matches, at
\* offsets 0 and 1 of the second paragraph of a document, the second one
\* across its two runs
FindTextExactWitness ==
    /\ call.op = "find_text"
    /\ ~call.text[1].case_sensitive
    /\ call.text[1].find = <<"a", "a">>
    /\ Len(returned) >= 2
    /\ returned[1].paragraph_index = returned[2].paragraph_index
    /\ returned[1].offset = 0
    /\ returned[2].offset = 1
    /\ Len(paragraphs[returned[1].paragraph_index + 1]) = 2
    /\ Len(paragraphs) = 2

\* C16: the count replace_text returns is the number of occurrences of the
\* search string that were substituted, over all runs, for every combination
\* of case_sensitive and whole_word.
ReplaceCountsOccurrences ==
    call.op = "replace_text"
    => call.ret = SumOf([k \in 1..Len(substituted) |-> SumOf(substituted[k])])

\* the positions of a run's text at which the search string of the call
\* occurs as a whole word: compared as the call compares, and bounded on both
\* sides by a non-alphanumeric character or an edge of the run
WholeWordAt(text, args) ==
    LET cmp == IF args.case_sensitive THEN text ELSE lower(text)
        query == IF args.case_sensitive THEN args.find ELSE lower(args.find)
        n == Len(query)
    IN  {p \in 0..(Len(text) - n) :
            /\ \A j \in 1..n : cmp[p + j] = query[j]
            /\ p = 0 \/ ~isalnum(text[p])
            /\ p + n = Len(text) \/ ~isalnum(text[p + n + 1])}

\* C28: with whole_word, for both values of case_sensitive, replace_text
\* substitutes in each run the whole-word occurrences of the search string
\* and only those: a run without one is unchanged and counts nothing.
ReplaceWholeWordOnly ==
    [][(call'.op = "replace_text" /\ call'.text[1].whole_word)
       => \A k \in 1..Len(paragraphs) : \A j \in 1..Len(paragraphs[k]) :
             LET whole == WholeWordAt(paragraphs[k][j].text, call'.text[1]) IN
             /\ substituted'[k][j] = Cardinality(whole)
             /\ whole = {} => paragraphs'[k][j] = paragraphs[k][j]]_vars

-----------------------------------------------------------------------------
(* Properties of replace_text after replace_text, checked under SpecReplace *)

Chars(text) == {text[j] : j \in 1..Len(text)}

\* the characters of the runs of a document
DocChars(paras) ==
    UNION {UNION {Chars(paras[k][j].text) : j \in 1..Len(paras[k])} :
              k \in 1..Len(paras)}

\* the last two calls were replace_text(a, b) and replace_text(b, a), both
\* with case_sensitive as given and whole_word false, for non-empty a and b
\* without a common character (so without a common substring)
ReplacedAndBack(case_sensitive) ==
    /\ prior.call.op = "replace_text"
    /\ call.op = "replace_text"
    /\ LET first == prior.call.text[1]
           second == call.text[1]
       IN  /\ second.find = first.replace
           /\ second.replace = first.find
           /\ first.find # <<>> /\ first.replace # <<>>
           /\ Chars(first.find) \cap Chars(first.replace) = {}
           /\ first.case_sensitive = case_sensitive
           /\ second.case_sensitive = case_sensitive
           /\ ~first.whole_word /\ ~second.whole_word

\* C13 as stated: replace_text(a, b) followed by replace_text(b, a), with the
\* default flags, restores the text of every paragraph.
ReplaceRoundTrip ==
    ReplacedAndBack(FALSE) => Texts(paragraphs) = Texts(prior.paragraphs)

\* a occurs in the runs of a document only in its own case: wherever a run
\* matches a when case is ignored, it reads a
OwnCase(paras, a) ==
    \A k \in 1..Len(paras) : \A j \in 1..Len(paras[k]) :
        LET text == paras[k][j].text IN
        \A p \in 1..(Len(text) - Len(a) + 1) :
            lower(SubSeq(text, p, p + Len(a) - 1)) = lower(a)
                => SubSeq(text, p, p + Len(a) - 1) = a

\* C13 amended: replace_text(a, b) followed by replace_text(b, a), with the
\* default flags, restores every run, and so the text of every paragraph, of
\* a document in which no character of b occurs in either case and a occurs
\* only in its own case.
ReplaceRoundTripOwnCase ==
    (/\ ReplacedAndBack(FALSE)
     /\ {LowerChar(c) : c \in DocChars(prior.paragraphs)}
            \cap Chars(lower(prior.call.text[1].replace)) = {}
     /\ OwnCase(prior.paragraphs, prior.call.text[1].find))
    => /\ paragraphs = prior.paragraphs
       /\ Texts(paragraphs) = Texts(prior.paragraphs)

\* C13 witness: with the default flags "a" was replaced by "xx" three times
\* in the two runs of a paragraph without "x" or "A", and "xx" by "a" again
ReplaceRoundTripOwnCaseWitness ==
    /\ ReplacedAndBack(FALSE)
    /\ {LowerChar(c) : c \in DocChars(prior.paragraphs)}
           \cap Chars(lower(prior.call.text[1].replace)) = {}
    /\ OwnCase(prior.paragraphs, prior.call.text[1].find)
    /\ prior.call.text[1].find = <<"a">>
    /\ prior.call.text[1].replace = <<"x", "x">>
    /\ prior.call.ret = 3
    /\ call.ret = 3
    /\ before # prior.paragraphs
    /\ \E k \in 1..Len(before) : Len(before[k]) = 2

-----------------------------------------------------------------------------
(* Properties of the comment overlay, checked under SpecComments           *)

\* the positions of the comments a call on comment id addresses
CommentsWithId(id) == {k \in 1..Len(comments) : comments[k].id = id}

\* C17: on an existing comment resolve_comment and reopen_comment never fail
\* and set the status to resolved and to open, whatever it was; nothing else
\* of the comment, no other comment and no paragraph changes, so after any
\* alternation of the two the status is the one of the last call.
CommentStatusReversible ==
    [][call'.op \in {"resolve_comment", "reopen_comment"}
       => \A k \in CommentsWithId(call'.idx) :
             /\ call'.raised = "none"
             /\ comments' = [comments EXCEPT ![k].status =
                                IF call'.op = "resolve_comment"
                                THEN "resolved" ELSE "open"]
             /\ paragraphs' = paragraphs
             /\ comment_next_id' = comment_next_id]_vars

\* C17 witness: reopen_comment succeeded on the first of two comments, which
\* has a reply and is open, while the other one is resolved
CommentStatusReversibleWitness ==
    /\ call.op = "reopen_comment"
    /\ call.raised = "none"
    /\ Len(comments) = 2
    /\ comments[1].id = call.idx
    /\ comments[1].status = "open"
    /\ Len(comments[1].replies) = 1
    /\ comments[2].status = "resolved"

\* C18: every comment of the collection is open or resolved, and the total
\* get_comment_count reports is the sum of its open and resolved counts.
CommentStatusOpenOrResolved ==
    /\ \A k \in 1..Len(comments) : comments[k].status \in {"open", "resolved"}
    /\ call.op = "get_comment_count"
       => returned.total = returned.open + returned.resolved

\* C19: delete_comment on the id of a comment removes that comment with its
\* replies and leaves the others, with their replies, in their order; no
\* comment has the id afterwards, and get_comment on an id no comment has
\* fails with 'Comment not found'; delete_comment on an id no comment has
\* fails and changes nothing.
DeleteCommentExact ==
    [][/\ call'.op = "delete_comment"
          => /\ paragraphs' = paragraphs
             /\ comment_next_id' = comment_next_id
             /\ IF CommentsWithId(call'.idx) = {}
                THEN /\ call'.raised = "ValidationError"
                     /\ comments' = comments
                ELSE /\ call'.raised = "none"
                     /\ \E k \in CommentsWithId(call'.idx) :
                           comments' = SubSeq(comments, 1, k - 1)
                                       \o SubSeq(comments, k + 1, Len(comments))
                     /\ \A j \in 1..Len(comments') : comments'[j].id # call'.idx
       /\ (call'.op = "get_comment" /\ CommentsWithId(call'.idx) = {})
          => /\ call'.raised = "ValidationError"
             /\ call'.msg = "Comment not found"]_vars

\* C19 witness: the first of two comments was deleted; the one left has its
\* reply
DeleteCommentExactWitness ==
    /\ call.op = "delete_comment"
    /\ call.raised = "none"
    /\ call.idx = 0
    /\ Len(comments) = 1
    /\ comments[1].id = 1
    /\ Len(comments[1].replies) = 1

\* the j-th of the positions S, in ascending order
NthOf(S, j) == CHOOSE p \in S : Cardinality({q \in S : q <= p}) = j

\* ret holds exactly the comments at the positions S, in their order
ExactlyThose(ret, S) ==
    /\ Len(ret) = Cardinality(S)
    /\ \A j \in 1..Len(ret) : ret[j] = comments[NthOf(S, j)]

\* what C20 says of the helpers other than get_paragraph_comments: a query
\* changes neither the comments nor the document, and get_open_comments and
\* get_comments_by_author return exactly the open comments and the comments
\* of the author
FiltersPure ==
    /\ call'.op \in {"get_comment", "get_paragraph_comments", "get_open_comments",
                     "get_comments_by_author", "get_comment_count"}
       => /\ comments' = comments
          /\ comment_next_id' = comment_next_id
          /\ paragraphs' = paragraphs
    /\ call'.op = "get_open_comments"
       => ExactlyThose(returned', {k \in 1..Len(comments) :
                                      comments[k].status = "open"})
    /\ call'.op = "get_comments_by_author"
       => ExactlyThose(returned', {k \in 1..Len(comments) :
                                      comments[k].author = call'.text[1]})

\* C20 as stated: the query helpers are pure filters that do not read the
\* document: get_paragraph_comments(i) returns exactly the comments anchored
\* at i for every i, whatever the number of paragraphs.
QueryHelpersIgnoreStore ==
    [][/\ FiltersPure
       /\ call'.op = "get_paragraph_comments"
          => /\ call'.raised = "none"
             /\ ExactlyThose(returned', {k \in 1..Len(comments) :
                    comments[k].paragraph_index = call'.idx})]_vars

\* C20 amended: the query helpers change nothing and get_open_comments and
\* get_comments_by_author are pure filters, but get_paragraph_comments(i)
\* reads the paragraph count: it returns exactly the comments anchored at i
\* when i is an index of the document and raises ValidationError otherwise.
QueryHelpersFilter ==
    [][/\ FiltersPure
       /\ call'.op = "get_paragraph_comments"
          => IF call'.idx >= 0 /\ call'.idx < Len(paragraphs)
             THEN /\ call'.raised = "none"
                  /\ ExactlyThose(returned', {k \in 1..Len(comments) :
                         comments[k].paragraph_index = call'.idx})
             ELSE /\ call'.raised = "ValidationError"
                  /\ returned' = <<>>]_vars

\* C20 witness: get_paragraph_comments raised for the index a comment is
\* anchored at, which is no index of the document any more
QueryHelpersFilterWitness ==
    /\ call.op = "get_paragraph_comments"
    /\ call.raised = "ValidationError"
    /\ call.idx >= Len(paragraphs)
    /\ \E k \in 1..Len(comments) : comments[k].paragraph_index = call.idx

\* the ids the collection holds: those of the comments and of their replies
HeldIds(cms) ==
    {cms[k].id : k \in 1..Len(cms)}
        \cup UNION {{cms[k].replies[j].id : j \in 1..Len(cms[k].replies)} :
                       k \in 1..Len(cms)}

\* the number of comments and replies the collection holds
HeldCount(cms) ==
    Len(cms) + SumOf([k \in 1..Len(cms) |-> Len(cms[k].replies)])

\* C30: a successful add_comment or add_reply issues the value of the
\* counter, stores it as the id of the comment or reply it appends and moves
\* the counter up by one; no other call and no failed call moves the
\* counter; so the ids issued are 0, 1, 2, ... in creation order, none twice
\* and none skipped, and the ids the collection holds are pairwise distinct
\* and below the counter.
CommentIdsMonotonic ==
    [][/\ IF call'.op \in {"add_comment", "add_reply"} /\ call'.raised = "none"
          THEN /\ call'.ret = comment_next_id
               /\ comment_next_id' = comment_next_id + 1
               /\ HeldIds(comments') = HeldIds(comments) \cup {call'.ret}
               /\ call'.ret \notin HeldIds(comments)
          ELSE comment_next_id' = comment_next_id
       /\ \A id \in HeldIds(comments') : id < comment_next_id'
       /\ Cardinality(HeldIds(comments')) = HeldCount(comments')]_vars

\* C30 witness: a comment was added to the emptied collection and took id 2,
\* after the ids 0 and 1 had been issued
CommentIdsMonotonicWitness ==
    /\ call.op = "add_comment"
    /\ call.raised = "none"
    /\ call.ret = 2
    /\ Len(comments) = 1
    /\ comments[1].id = 2
    /\ comment_next_id = 3

-----------------------------------------------------------------------------
(* Properties of the index checks, checked under SpecIndex *)

\* the operations that address a paragraph by index
IndexOps ==
    {"get_paragraph", "update_paragraph", "delete_paragraph", "add_run",
     "format_run", "insert_text", "add_comment", "add_revision"}

\* the call of the step raised ValidationError and the paragraphs, the
\* comments, the revisions and both id counters are as before
RefusedUnchanged ==
    /\ call'.raised = "ValidationError"
    /\ UNCHANGED <<paragraphs, comments, revisions, next_id, comment_next_id>>

\* C21: a call of an operation that addresses a paragraph by index with an
\* index outside [0, paragraph count) raises the out-of-range ValidationError
\* and leaves the paragraphs, the comments, the revisions and both id
\* counters as they were; so do format_run with a run index outside the runs
\* of the paragraph and insert_text with an offset outside [0, len(text)].
OutOfRangeRefused ==
    [][call'.op \in IndexOps =>
         LET index == call'.idx IN
         IF index < 0 \/ index >= Len(paragraphs)
         THEN RefusedUnchanged /\ call'.msg = "out of range"
         ELSE /\ (/\ call'.op = "format_run"
                  /\ \/ call'.text[1].at < 0
                     \/ call'.text[1].at >= Len(paragraphs[index + 1]))
                 => RefusedUnchanged
              /\ (/\ call'.op = "insert_text"
                  /\ \/ call'.text[1].at < 0
                     \/ call'.text[1].at > Len(ParaText(paragraphs[index + 1])))
                 => RefusedUnchanged]_vars

\* C21 witness: insert_text was refused for the offset one past the text of
\* an existing paragraph, on a document with a comment and a revision
OutOfRangeRefusedWitness ==
    /\ call.op = "insert_text"
    /\ call.raised = "ValidationError"
    /\ validate_paragraph_index(paragraphs, call.idx)
    /\ call.text[1].at = Len(ParaText(paragraphs[call.idx + 1])) + 1
    /\ comments # <<>>
    /\ revisions # <<>>

-----------------------------------------------------------------------------
(* Properties of the styles, checked under SpecStyles *)

\* a font size outside the range [6, 144] of the schemas
OutOfFontRange(size) == size # None /\ (size[1] < 6 \/ size[1] > 144)

\* C23: a font size is checked against [6, 144] whenever it is set on a
\* style: create_style and update_style with a size outside the range fail
\* and leave the styles unchanged; a run call (format_run, add_run with a
\* format) is never refused for its font size.
FontSizeCheckedOnStyles ==
    [][/\ (/\ call'.op \in {"StyleCreate", "create_style", "update_style"}
           /\ OutOfFontRange(call'.text[1].font_size))
          => (call'.raised # "none" /\ styles' = styles)
       /\ call'.op # "TextFormat"]_vars

\* C25: create_style and copy_style naming a base style the document does
\* not have fail and create no style, and every style a call creates with a
\* base style names a style the document had before the call.
BaseStyleMustExist ==
    [][call'.op \in {"create_style", "copy_style"} =>
         LET base == call'.text[1].base_style IN
         /\ (base # None /\ style_index(styles, base[1]) = 0)
               => (call'.raised # "none" /\ styles' = styles)
         /\ \A k \in 1..Len(styles') :
               (/\ style_index(styles, styles'[k].name) = 0
                /\ styles'[k].base_style # None)
               => style_index(styles, styles'[k].base_style[1]) # 0]_vars

-----------------------------------------------------------------------------
(* Properties of the tables, checked under SpecTables *)

\* the cells of a table that cover more than one grid position
Spanning(table) ==
    {c \in (1..Len(table.trs)) \X (1..table.cols) :
        /\ c[2] <= Len(table.trs[c[1]])
        /\ \/ table.trs[c[1]][c[2]].grid_span > 1
           \/ table.trs[c[1]][c[2]].vMerge # "none"}

\* C22: merge_cells on an existing table with start_row > end_row or
\* start_col > end_col, or with a row or column index out of range, raises
\* ValidationError and leaves every table (dimensions, cell texts and spans)
\* as it was.
MergeRangeValidated ==
    [][(call'.op = "merge_cells" /\ validate_table_index(tables, call'.idx)) =>
         LET range == call'.text[1]
             table == tables[call'.idx + 1] IN
         (\/ range.start_row > range.end_row
          \/ range.start_col > range.end_col
          \/ ~validate_cell_indices(table, range.start_row, range.start_col)
          \/ ~validate_cell_indices(table, range.end_row, range.end_col))
         => (call'.raised = "ValidationError" /\ tables' = tables)]_vars

\* C22 witness: merge_cells from (1, 1) back to (0, 0) was refused as an
\* invalid range on a table that has a merged cell and a cell with text
MergeRangeValidatedWitness ==
    /\ call.op = "merge_cells"
    /\ call.raised = "ValidationError"
    /\ call.msg = "Invalid cell range for merge"
    /\ call.text[1].start_row = 1 /\ call.text[1].start_col = 1
    /\ call.text[1].end_row = 0 /\ call.text[1].end_col = 0
    /\ Spanning(tables[1]) # {}
    /\ \E i \in 1..Len(tables[1].trs) : \E k \in 1..Len(tables[1].trs[i]) :
           tables[1].trs[i][k].paras # <<(<<>>)>>

-----------------------------------------------------------------------------
(* Properties of the bookmarks, checked under SpecBookmarks *)

\* the start elements of the document, each with its position
StartElements(marks) ==
    {<<k, j>> \in (1..Len(marks)) \X (1..(2 * MaxBookmarks)) :
        j <= Len(marks[k]) /\ marks[k][j].tag = "bookmarkStart"}

\* the names of the bookmarks of the document
NamesOf(marks) == {marks[e[1]][e[2]].name : e \in StartElements(marks)}

\* C24: add_bookmark with a name the document already has fails and leaves
\* the bookmarks as they were, so that after every call no two bookmarks of
\* the document share a name.
BookmarkNamesUnique ==
    [][/\ (call'.op = "add_bookmark" /\ call'.text[1] \in NamesOf(bookmarks))
          => (call'.raised # "none" /\ bookmarks' = bookmarks)
       /\ \A e, f \in StartElements(bookmarks') :
             e # f => bookmarks'[e[1]][e[2]].name # bookmarks'[f[1]][f[2]].name]_vars

-----------------------------------------------------------------------------
(* Properties of the batch route, checked under SpecBatch *)

RECURSIVE Attempts(_, _)
\* the outcome of every operation of a batch when each is executed on the
\* document the operations before it have left
Attempts(operations, doc) ==
    IF operations = <<>> THEN <<>>
    ELSE LET out == execute_operation(operations[1].operation,
                                      operations[1].params, doc)
         IN  <<out>> \o Attempts(Tail(operations), out.doc)

\* the indices of a list of result or error records, as a sequence and a set
IndexSeq(records) == [k \in 1..Len(records) |-> records[k].index]
IndexSet(records) == {records[k].index : k \in 1..Len(records)}

\* a sequence of integers that increases strictly
Increasing(seq) == \A k \in 1..(Len(seq) - 1) : seq[k] < seq[k + 1]

\* C26: execute_batch with stop_on_error false does not raise, executes
\* every operation in request order on the document the earlier operations
\* have left, whether or not they failed, and returns one record per
\* operation: the indices of results and errors are disjoint and cover
\* 0..n-1, an operation is in errors exactly when it failed (an unknown
\* operation included), and success is true exactly when errors is empty.
BatchAttemptsAll ==
    [][(call'.op = "execute_batch" /\ ~call'.text[1].stop_on_error) =>
         LET operations == call'.text[1].operations
             n == Len(operations)
             attempts == Attempts(operations, open_document(stored))
             results == call'.ret.results
             errors == call'.ret.errors IN
         /\ call'.raised = "none"
         /\ Len(results) + Len(errors) = n
         /\ IndexSet(results) \cap IndexSet(errors) = {}
         /\ IndexSet(results) \cup IndexSet(errors) = 0..(n - 1)
         /\ Increasing(IndexSeq(results)) /\ Increasing(IndexSeq(errors))
         /\ \A i \in 0..(n - 1) :
               i \in IndexSet(errors) <=> attempts[i + 1].raised # "none"
         /\ \A k \in 1..Len(results) :
               results[k].result = attempts[results[k].index + 1].result
         /\ call'.ret.success <=> errors = <<>>
         /\ stored' = save_document(IF n = 0 THEN open_document(stored)
                                    ELSE attempts[n].doc)]_vars

\* C26 witness: a batch of three operations without stop_on_error whose
\* first operation is unknown: it is the one error, the two after it were
\* executed and their effect is in the file
BatchAttemptsAllWitness ==
    /\ call.op = "execute_batch"
    /\ ~call.text[1].stop_on_error
    /\ Len(call.text[1].operations) = 3
    /\ call.text[1].operations[1].operation = "frobnicate"
    /\ call.text[1].operations[2].operation = "set_metadata"
    /\ call.text[1].operations[3].operation = "add_paragraph"
    /\ IndexSeq(call.ret.errors) = <<0>>
    /\ IndexSeq(call.ret.results) = <<1, 2>>
    /\ ~call.ret.success
    /\ stored.metadata["title"] = "t"
    /\ Len(stored.paragraphs) = 3

\* the first operation of a batch that fails, counted from 0; the number of
\* operations when none fails
FirstFailure(attempts) ==
    IF \E k \in 1..Len(attempts) : attempts[k].raised # "none"
    THEN (CHOOSE k \in 1..Len(attempts) :
              /\ attempts[k].raised # "none"
              /\ \A j \in 1..(k - 1) : attempts[j].raised = "none") - 1
    ELSE Len(attempts)

\* C29: execute_batch calls save_document exactly when every operation
\* succeeded or stop_on_error is false; with stop_on_error true and a
\* failing operation, the operations before the first failing one are the
\* results, the failing one is the only error, none after it is executed and
\* the file is as it was before the batch.
BatchSavesUnlessStopped ==
    [][call'.op = "execute_batch" =>
         LET operations == call'.text[1].operations
             stop_on_error == call'.text[1].stop_on_error
             attempts == Attempts(operations, open_document(stored))
             first == FirstFailure(attempts)
             failed == first < Len(operations) IN
         /\ call'.msg = "saved" <=> (~failed \/ ~stop_on_error)
         /\ (stop_on_error /\ failed) =>
               /\ IndexSeq(call'.ret.results) = [k \in 1..first |-> k - 1]
               /\ IndexSeq(call'.ret.errors) = <<first>>
               /\ stored' = stored
         /\ (~failed) => stored' = save_document(IF operations = <<>>
                                                 THEN open_document(stored)
                                                 ELSE attempts[Len(operations)].doc)]_vars

\* C29 witness: a batch with stop_on_error added a paragraph, failed at its
\* second operation and was not saved: the file has the two paragraphs and
\* the title it had, and the third operation was not executed
BatchSavesUnlessStoppedWitness ==
    /\ call.op = "execute_batch"
    /\ call.text[1].stop_on_error
    /\ Len(call.text[1].operations) = 3
    /\ call.text[1].operations[1].operation = "add_paragraph"
    /\ call.text[1].operations[2].operation = "frobnicate"
    /\ call.text[1].operations[3].operation = "set_metadata"
    /\ IndexSeq(call.ret.results) = <<0>>
    /\ IndexSeq(call.ret.errors) = <<1>>
    /\ call.msg = ""
    /\ stored = Stored(Doc0)

\* C27: a revision accepted through the REST route is persisted: after a
\* successful accept request the stored file holds the document the cached
\* handler has applied the revision to
AcceptedRevisionStored ==
    [][(call'.op = "post_accept_revision" /\ call'.raised = "none")
           => stored'.paragraphs = paragraphs']_vars

====
